---------------------------- MODULE Spec2Model ----------------------------
(***************************************************************************)
(* EDUPLANNER timetable generator: the genetic algorithm of                *)
(* core/genetic_algorithm.py (constructor, fitness, operators, repair,     *)
(* evolve) and the persistence step of generate_department_timetable.      *)
(*                                                                         *)
(* A chromosome's gene list is modelled as a bag of genes: the program     *)
(* appends to a Python list, and every read of that list in the modelled   *)
(* code is insensitive to the order (it counts, groups or filters); the    *)
(* one exception, the enumerate() of _repair_labs, is modelled as a free   *)
(* choice of the order.  random.* calls are nondeterministic choices.      *)
(***************************************************************************)
EXTENDS Integers, Sequences, FiniteSets, Bags, TLC

VARIABLES
    cfg,               \* the data given to load_data (a scenario record)
    pc,                \* position of the run
    genes,             \* _create_random_chromosome: genes
    lab_day_usage,     \* _create_random_chromosome: global_lab_day_usage
    lab_room_usage,    \* _create_random_chromosome: global_lab_room_usage
    faculty_schedule,  \* _create_random_chromosome: global_faculty_schedule
    todo,              \* classes of shuffled_classes not yet processed
    cur,               \* class_id of the class being processed (0: none)
    used_slots,        \* used_slots of the current class
    class_lab_days,    \* class_lab_days of the current class
    idx,               \* index into the lab / theory subject list of the class
    fill,              \* locals of the fill pass
    population,        \* evolve: population
    new_population,    \* evolve: new_population
    best_ever,         \* evolve: best_ever
    fitness_history,   \* evolve: fitness_history
    generation,        \* evolve: generation
    best_evaluated,         \* the largest fitness calculate_fitness has returned in evolve
    gens_run,          \* number of iterations of the generation loop begun
    db,                \* TimetableEntry rows
    fsa,               \* FacultySubjectAssignment rows
    result,            \* what the entry point returned
    requests           \* concurrent requests: position and rows written of each

consVars == <<genes, lab_day_usage, lab_room_usage, faculty_schedule, todo,
              cur, used_slots, class_lab_days, idx, fill>>
evoVars  == <<population, new_population, best_ever, fitness_history,
              generation, best_evaluated, gens_run>>
vars == <<cfg, pc, consVars, evoVars, db, fsa, result, requests>>

-----------------------------------------------------------------------------
(* Time slots: the teaching slots of _create_time_slots, day x period.     *)

\* Number of teaching periods in a day (periods 1..7).
PeriodsPerDay == 7

\* Largest number of days in a loaded week.
MaxDays == 2

DaysOf(c) == 1..c.days
SlotId(d, p) == (d - 1) * PeriodsPerDay + p
SlotsOf(c) == 1..(c.days * PeriodsPerDay)
DayOf(s) == ((s - 1) \div PeriodsPerDay) + 1
PeriodOf(s) == ((s - 1) % PeriodsPerDay) + 1
Halves == {"morning", "afternoon"}
HalfOf(s) == IF PeriodOf(s) <= 3 THEN "morning" ELSE "afternoon"

-----------------------------------------------------------------------------
(* Generic helpers.                                                        *)

Max2(a, b) == IF a >= b THEN a ELSE b
Min2(a, b) == IF a <= b THEN a ELSE b
Abs(a) == IF a >= 0 THEN a ELSE -a

RECURSIVE SumOver(_, _)
\* Sum of f[x] for x in S.
SumOver(S, f) ==
    IF S = {} THEN 0
    ELSE LET x == CHOOSE y \in S : TRUE IN f[x] + SumOver(S \ {x}, f)

\* The k smallest elements of a set of numbers.
FirstK(S, k) == {x \in S : Cardinality({y \in S : y < x}) < k}

-----------------------------------------------------------------------------
(* Genes and chromosomes.                                                  *)

Gene(c, s, f, t, lab, a) ==
    [class_id |-> c, subject_id |-> s, faculty_id |-> f, time_slot_id |-> t,
     is_lab |-> lab, assistant_faculty_id |-> a]

Chromosome(g, fit) == [genes |-> g, fitness |-> fit]

GeneSet(B) == BagToSet(B)
Copies(B, g) == CopiesIn(g, B)
AddGenes(B, S) == B (+) SetToBag(S)

\* Number of genes of bag B that satisfy the boolean function P (over GeneSet(B)).
CountGenes(B, P) ==
    SumOver(GeneSet(B), [g \in GeneSet(B) |-> IF P[g] THEN Copies(B, g) ELSE 0])

\* Number of genes of class c at slot s.
GenesAt(B, c, s) ==
    CountGenes(B, [g \in GeneSet(B) |-> g.class_id = c /\ g.time_slot_id = s])

GenesOfClass(B, c) == CountGenes(B, [g \in GeneSet(B) |-> g.class_id = c])

\* The lab genes of (class, subject): their number and their slots.
LabCount(B, c, sid) ==
    CountGenes(B, [g \in GeneSet(B) |-> g.is_lab /\ g.class_id = c /\ g.subject_id = sid])

LabSlots(B, c, sid) ==
    {g.time_slot_id : g \in {h \in GeneSet(B) :
                                h.is_lab /\ h.class_id = c /\ h.subject_id = sid}}

-----------------------------------------------------------------------------
(* The data of load_data.  A scenario c is a record:                       *)
(*   days        number of days of the loaded week                         *)
(*   classes     set of class ids                                          *)
(*   class_sem   class id -> semester id                                   *)
(*   subjects    sequence of [id, subject_type, hours_per_week,            *)
(*               semester_id]; a subject's code is its id                  *)
(*   faculties   set of faculty ids (ids are >= 1; 0 stands for None)      *)
(*   max_hours   faculty id -> workload limit                              *)
(*   prefs       faculty id -> set of preferred subject codes              *)
(*   history     faculty id -> set of subject codes taught in other terms  *)
(*   pre_booked  faculty id -> set of slots booked in other departments    *)

Subject(i, ty, h, sem) ==
    [id |-> i, subject_type |-> ty, hours_per_week |-> h, semester_id |-> sem]

SubjectIds(c) == {c.subjects[i].id : i \in 1..Len(c.subjects)}
subject_info(c, sid) ==
    c.subjects[CHOOSE i \in 1..Len(c.subjects) : c.subjects[i].id = sid]

\* load_data: class_subjects[class_id], the ids of the subjects of the
\* class's semester, in the order of the subject list.
class_subjects(c, class_id) ==
    LET sel == SelectSeq(c.subjects,
                         LAMBDA s : s.semester_id = c.class_sem[class_id])
    IN  [i \in 1..Len(sel) |-> sel[i].id]

\* The subsequence of the class's subject ids whose type is in T.
SubjectsOfType(c, class_id, T) ==
    SelectSeq(class_subjects(c, class_id),
              LAMBDA sid : subject_info(c, sid).subject_type \in T)

_get_eligible_faculty_for_subject(c, sid) ==
    LET preferred_faculty == {f \in c.faculties : sid \in c.prefs[f]}
    IN  IF preferred_faculty # {} THEN preferred_faculty ELSE c.faculties

-----------------------------------------------------------------------------
(* _find_lab_slots: the set of triples <<s1, s2, s3>> the function can     *)
(* return; the empty set stands for the return value [].                   *)

\* slots_by_day[day]: the free slots of the day.
slots_by_day(c, used, day) == {s \in SlotsOf(c) : DayOf(s) = day /\ s \notin used}

\* candidates: (day, half, slot_ids) with periods 1,2,3 or 5,6,7 all free.
LabCandidates(c, used) ==
    {cand \in [day : DaysOf(c), half : Halves] :
        LET free == slots_by_day(c, used, cand.day)
            want == IF cand.half = "morning" THEN {1, 2, 3} ELSE {5, 6, 7}
        IN  want \subseteq {PeriodOf(s) : s \in free}}

CandidateSlots(cand) ==
    LET p0 == IF cand.half = "morning" THEN 1 ELSE 5
    IN  <<SlotId(cand.day, p0), SlotId(cand.day, p0 + 1), SlotId(cand.day, p0 + 2)>>

\* Fallback when there is no candidate: in a day taken in random order, the
\* first run of three free slots with consecutive periods.
FallbackTriples(c, used) ==
    LET hasRun(day, p) ==
            /\ p + 2 <= PeriodsPerDay
            /\ {SlotId(day, p), SlotId(day, p + 1), SlotId(day, p + 2)}
                   \subseteq slots_by_day(c, used, day)
        runs(day) == {p \in 1..PeriodsPerDay : hasRun(day, p)}
        first(day) == CHOOSE p \in runs(day) : \A q \in runs(day) : p <= q
    IN  {<<SlotId(day, first(day)), SlotId(day, first(day) + 1),
           SlotId(day, first(day) + 2)>> : day \in {d \in DaysOf(c) : runs(d) # {}}}

\* The least used candidates of a set (ties are broken at random).
LeastUsed(cands, day_usage) ==
    {cand \in cands :
        \A o \in cands : day_usage[<<cand.day, cand.half>>] <= day_usage[<<o.day, o.half>>]}

\* _find_lab_slots as it would be if it always ran the search for "any 3
\* continuous slots" (used as a mutant of _find_lab_slots).
FindLabSlotsAnyRun(c, used, exclude_days, day_usage) == FallbackTriples(c, used)

\* _find_lab_slots as it would be if it took no slot for used (used as a
\* mutant of _find_lab_slots).
FindLabSlotsIgnoreUsed(c, used, exclude_days, day_usage) ==
    {CandidateSlots(cand) : cand \in LabCandidates(c, {})}

_find_lab_slots(c, used, exclude_days, day_usage) ==
    LET candidates == LabCandidates(c, used)
        preferred == {cand \in candidates : cand.day \notin exclude_days}
        fallback == {cand \in candidates : cand.day \in exclude_days}
    IN  IF candidates = {} THEN FallbackTriples(c, used)
        ELSE IF preferred # {}
             THEN {CandidateSlots(cand) : cand \in LeastUsed(preferred, day_usage)}
             ELSE {CandidateSlots(cand) : cand \in LeastUsed(fallback, day_usage)}

TripleSet(t) == {t[1], t[2], t[3]}

-----------------------------------------------------------------------------
(* _create_random_chromosome, one action per loop iteration.               *)

DayHalves(c) == DaysOf(c) \X Halves

NoFill == [rest |-> {}, slot |-> 0, fill_idx |-> 0, attempts |-> 0,
           max_attempts |-> 0, sfmap |-> <<>>]

\* The state at the entry of _create_random_chromosome for data c.
ConsEntry(c) ==
    /\ genes = EmptyBag
    /\ lab_day_usage = [dh \in DayHalves(c) |-> 0]
    /\ lab_room_usage = [s \in SubjectIds(c) |-> {}]
    /\ faculty_schedule = [f \in c.faculties |-> {}]
    /\ todo = c.classes
    /\ cur = 0
    /\ used_slots = {}
    /\ class_lab_days = {}
    /\ idx = 0
    /\ fill = NoFill

\* The same state, reached by the next call from initialize_population.
ConsReenter(c) ==
    /\ genes' = EmptyBag
    /\ lab_day_usage' = [dh \in DayHalves(c) |-> 0]
    /\ lab_room_usage' = [s \in SubjectIds(c) |-> {}]
    /\ faculty_schedule' = [f \in c.faculties |-> {}]
    /\ todo' = c.classes
    /\ cur' = 0
    /\ used_slots' = {}
    /\ class_lab_days' = {}
    /\ idx' = 0
    /\ fill' = NoFill

\* for class_info in shuffled_classes: the next class of the shuffled order.
ConsNextClass ==
    /\ pc = "cons_class"
    /\ todo # {}
    /\ \E class_id \in todo :
        /\ cur' = class_id
        /\ todo' = todo \ {class_id}
    /\ used_slots' = {}
    /\ class_lab_days' = {}
    /\ idx' = 1
    /\ pc' = "cons_lab"
    /\ UNCHANGED <<cfg, genes, lab_day_usage, lab_room_usage, faculty_schedule,
                   fill, evoVars, db, fsa, result, requests>>

\* The pairs <<main_faculty, assistant_faculty>> the lab pass can choose
\* for the triple lab_slots of lab lab_id.
LabFacultyChoices(c, lab_id, lab_slots, schedule) ==
    LET eligible_faculty ==
            {f \in _get_eligible_faculty_for_subject(c, lab_id) :
                \A s \in TripleSet(lab_slots) :
                    s \notin c.pre_booked[f] /\ s \notin schedule[f]}
    IN  IF Cardinality(eligible_faculty) >= 2
        THEN {<<m, a>> : m \in eligible_faculty, a \in eligible_faculty} \
                 {<<m, m>> : m \in eligible_faculty}
        ELSE IF Cardinality(eligible_faculty) = 1
             THEN {<<m, 0>> : m \in eligible_faculty}
             ELSE {<<m, 0>> : m \in c.faculties}

\* The lab list cut after three labs instead of two (used as a mutant of
\* LabsToSchedule).
LabsToScheduleThree(c, class_id) ==
    LET lab_subjects_for_class == SubjectsOfType(c, class_id, {"LAB"})
    IN  SubSeq(lab_subjects_for_class, 1, Min2(3, Len(lab_subjects_for_class)))

\* The labs the lab pass schedules: lab_subjects_for_class[:2].
LabsToSchedule(c, class_id) ==
    LET lab_subjects_for_class == SubjectsOfType(c, class_id, {"LAB"})
    IN  SubSeq(lab_subjects_for_class, 1, Min2(2, Len(lab_subjects_for_class)))

\* One iteration of "for lab_id in lab_subjects_for_class[:2]".
ConsLabPass ==
    /\ pc = "cons_lab"
    /\ idx <= Len(LabsToSchedule(cfg, cur))
    /\ LET lab_id == LabsToSchedule(cfg, cur)[idx]
           lab_blocked_slots == lab_room_usage[lab_id]
           found == _find_lab_slots(cfg, used_slots \cup lab_blocked_slots,
                                    class_lab_days, lab_day_usage)
       IN  IF found = {}
           THEN UNCHANGED <<genes, used_slots, class_lab_days, lab_day_usage,
                            lab_room_usage, faculty_schedule>>
           ELSE \E lab_slots \in found :
                \E fa \in LabFacultyChoices(cfg, lab_id, lab_slots, faculty_schedule) :
                   LET main_faculty == fa[1]
                       assistant_faculty == fa[2]
                       lab_day == DayOf(lab_slots[1])
                       lab_half == HalfOf(lab_slots[1])
                       busy == [faculty_schedule EXCEPT
                                   ![main_faculty] = @ \cup TripleSet(lab_slots)]
                   IN  /\ genes' = AddGenes(genes,
                               {Gene(cur, lab_id, main_faculty, s, TRUE, assistant_faculty) :
                                    s \in TripleSet(lab_slots)})
                       /\ used_slots' = used_slots \cup TripleSet(lab_slots)
                       /\ class_lab_days' = class_lab_days \cup {lab_day}
                       /\ lab_day_usage' =
                              [lab_day_usage EXCEPT ![<<lab_day, lab_half>>] = @ + 1]
                       /\ lab_room_usage' =
                              [lab_room_usage EXCEPT ![lab_id] = @ \cup TripleSet(lab_slots)]
                       /\ faculty_schedule' =
                              IF assistant_faculty # 0
                              THEN [busy EXCEPT ![assistant_faculty] =
                                        @ \cup TripleSet(lab_slots)]
                              ELSE busy
    /\ idx' = idx + 1
    /\ UNCHANGED <<cfg, pc, todo, cur, fill, evoVars, db, fsa, result, requests>>

\* End of the lab loop: on to the theory subjects of the class.
ConsLabsDone ==
    /\ pc = "cons_lab"
    /\ idx > Len(LabsToSchedule(cfg, cur))
    /\ idx' = 1
    /\ pc' = "cons_theory"
    /\ UNCHANGED <<cfg, genes, lab_day_usage, lab_room_usage, faculty_schedule,
                   todo, cur, used_slots, class_lab_days, fill, evoVars, db, fsa, result, requests>>

\* The theory pass drawing from every slot the faculty is free at, whether
\* or not the class already uses it (used as a mutant of TheorySlotChoices).
TheorySlotChoicesAnySlot(c, used, faculty_blocked, hours_needed) ==
    {S \in SUBSET (SlotsOf(c) \ faculty_blocked) : Cardinality(S) = hours_needed}

\* The slot sets the theory pass can give a subject taught by faculty_id:
\* hours_needed of the shuffled unblocked free slots, topped up from the
\* blocked free slots (in slot-list order) when too few are unblocked.
TheorySlotChoices(c, used, faculty_blocked, hours_needed) ==
    LET remaining_slots == {s \in SlotsOf(c) : s \notin used /\ s \notin faculty_blocked}
        extra == {s \in SlotsOf(c) : s \notin used /\ s \in faculty_blocked}
    IN  IF Cardinality(remaining_slots) < hours_needed
        THEN {remaining_slots \cup
                  FirstK(extra, hours_needed - Cardinality(remaining_slots))}
        ELSE {S \in SUBSET remaining_slots : Cardinality(S) = hours_needed}

\* One iteration of "for subject_id in theory_subjects_for_class".
ConsTheoryPass ==
    /\ pc = "cons_theory"
    /\ idx <= Len(SubjectsOfType(cfg, cur, {"THEORY"}))
    /\ LET subject_id == SubjectsOfType(cfg, cur, {"THEORY"})[idx]
           hours_needed == subject_info(cfg, subject_id).hours_per_week
       IN  \E faculty_id \in _get_eligible_faculty_for_subject(cfg, subject_id) :
              LET faculty_blocked ==
                      cfg.pre_booked[faculty_id] \cup faculty_schedule[faculty_id]
              IN  \E S \in TheorySlotChoices(cfg, used_slots, faculty_blocked, hours_needed) :
                     /\ genes' = AddGenes(genes,
                            {Gene(cur, subject_id, faculty_id, s, FALSE, 0) : s \in S})
                     /\ used_slots' = used_slots \cup S
                     /\ faculty_schedule' =
                            [faculty_schedule EXCEPT ![faculty_id] = @ \cup S]
    /\ idx' = idx + 1
    /\ UNCHANGED <<cfg, pc, lab_day_usage, lab_room_usage, todo, cur,
                   class_lab_days, fill, evoVars, db, fsa, result, requests>>

\* subject_faculty_map: the faculty of the class's non-lab genes, by subject
\* (0: the subject has no gene yet).
SubjectFacultyMaps(c, B, class_id) ==
    LET fac(sid) == {g.faculty_id : g \in {h \in GeneSet(B) :
                        h.class_id = class_id /\ ~h.is_lab /\ h.subject_id = sid}}
    IN  {m \in [SubjectIds(c) -> c.faculties \cup {0}] :
            \A sid \in SubjectIds(c) :
                IF fac(sid) = {} THEN m[sid] = 0 ELSE m[sid] \in fac(sid)}

\* End of the theory loop: set up the fill pass, or go to the next class
\* when the class has no THEORY or ELECTIVE subject.
ConsFillBegin ==
    /\ pc = "cons_theory"
    /\ idx > Len(SubjectsOfType(cfg, cur, {"THEORY"}))
    /\ LET fillable_subjects == SubjectsOfType(cfg, cur, {"THEORY", "ELECTIVE"})
           remaining_slots == SlotsOf(cfg) \ used_slots
       IN  IF fillable_subjects = <<>>
           THEN /\ pc' = "cons_class"
                /\ fill' = NoFill
           ELSE /\ pc' = "cons_fill"
                /\ \E m \in SubjectFacultyMaps(cfg, genes, cur) :
                      fill' = [rest |-> remaining_slots, slot |-> 0, fill_idx |-> 0,
                               attempts |-> 0,
                               max_attempts |->
                                   Cardinality(remaining_slots) * Len(fillable_subjects),
                               sfmap |-> m]
    /\ idx' = 0
    /\ UNCHANGED <<cfg, genes, lab_day_usage, lab_room_usage, faculty_schedule,
                   todo, cur, used_slots, class_lab_days, evoVars, db, fsa, result, requests>>

\* A fill pass that places the first subject it tries (used as a mutant of
\* ForceAssign).
ForceAssignAtOnce(attempts, n) == TRUE

\* if attempts % len(fillable_subjects) == 0: force assign anyway
ForceAssign(attempts, n) == attempts % n = 0

\* One iteration of "while slot_queue and attempts < max_attempts".
\* fill.slot is slot_queue[0] once it has been looked at (0: the head of the
\* shuffled queue has not been drawn yet); fill.rest is the rest of the queue.
ConsFillStep ==
    /\ pc = "cons_fill"
    /\ (fill.slot # 0 \/ fill.rest # {})
    /\ fill.attempts < fill.max_attempts
    /\ LET fillable_subjects == SubjectsOfType(cfg, cur, {"THEORY", "ELECTIVE"})
           n == Len(fillable_subjects)
           subject_id == fillable_subjects[(fill.fill_idx % n) + 1]
       IN  \E slot_id \in (IF fill.slot # 0 THEN {fill.slot} ELSE fill.rest) :
           \E faculty_id \in (IF fill.sfmap[subject_id] # 0
                              THEN {fill.sfmap[subject_id]}
                              ELSE _get_eligible_faculty_for_subject(cfg, subject_id)) :
              LET map == [fill.sfmap EXCEPT ![subject_id] = faculty_id]
                  rest == fill.rest \ {slot_id}
                  busy == slot_id \in faculty_schedule[faculty_id]
                  forced == ForceAssign(fill.attempts + 1, n)
                  place == /\ genes' = AddGenes(genes,
                                  {Gene(cur, subject_id, faculty_id, slot_id, FALSE, 0)})
                           /\ used_slots' = used_slots \cup {slot_id}
                           /\ faculty_schedule' =
                                  [faculty_schedule EXCEPT ![faculty_id] = @ \cup {slot_id}]
              IN  IF busy
                  THEN IF forced
                       THEN /\ place
                            /\ fill' = [fill EXCEPT !.rest = rest, !.slot = 0,
                                           !.fill_idx = @ + 2, !.attempts = @ + 1,
                                           !.sfmap = map]
                       ELSE /\ UNCHANGED <<genes, used_slots, faculty_schedule>>
                            /\ fill' = [fill EXCEPT !.rest = rest, !.slot = slot_id,
                                           !.fill_idx = @ + 1, !.attempts = @ + 1,
                                           !.sfmap = map]
                  ELSE /\ place
                       /\ fill' = [fill EXCEPT !.rest = rest, !.slot = 0,
                                      !.fill_idx = @ + 1, !.attempts = 0,
                                      !.sfmap = map]
    /\ UNCHANGED <<cfg, pc, lab_day_usage, lab_room_usage, todo, cur,
                   class_lab_days, idx, evoVars, db, fsa, result, requests>>

\* The while loop of the fill pass ends: on to the next class.
ConsFillDone ==
    /\ pc = "cons_fill"
    /\ ~((fill.slot # 0 \/ fill.rest # {}) /\ fill.attempts < fill.max_attempts)
    /\ pc' = "cons_class"
    /\ fill' = NoFill
    /\ UNCHANGED <<cfg, genes, lab_day_usage, lab_room_usage, faculty_schedule,
                   todo, cur, used_slots, class_lab_days, idx, evoVars, db, fsa, result, requests>>

\* return Chromosome(genes=genes), appended to the population by
\* initialize_population.
ConsReturn ==
    /\ pc = "cons_class"
    /\ todo = {}
    /\ population' = Append(population, Chromosome(genes, 0))
    /\ pc' = "cons_returned"
    /\ cur' = 0
    /\ used_slots' = {}
    /\ class_lab_days' = {}
    /\ UNCHANGED <<cfg, genes, lab_day_usage, lab_room_usage, faculty_schedule,
                   todo, idx, fill, new_population, best_ever, fitness_history,
                   generation, best_evaluated, gens_run, db, fsa, result, requests>>

ConsNext ==
    \/ ConsNextClass
    \/ ConsLabPass
    \/ ConsLabsDone
    \/ ConsTheoryPass
    \/ ConsFillBegin
    \/ ConsFillStep
    \/ ConsFillDone
    \/ ConsReturn

-----------------------------------------------------------------------------
(* calculate_fitness.  The program sums floats; the only term that is not  *)
(* an integer is the workload balance, which divides by the number of      *)
(* faculty that have hours.  The model computes the exact sum multiplied   *)
(* by FitScale(c), a multiple of every such number, so that a fitness is   *)
(* an integer and comparisons between fitnesses are those of the exact     *)
(* values.                                                                 *)

RECURSIVE Factorial(_)
Factorial(n) == IF n <= 1 THEN 1 ELSE n * Factorial(n - 1)

FitScale(c) == Factorial(Cardinality(c.faculties))

\* WEIGHTS
W_faculty_clash == -1000
W_class_clash == -1000
W_workload_exceeded == -500
W_lab_continuity == -5000
W_lab_timing == -100
W_lab_day_clash == -800
W_lab_room_clash == -1500
W_cross_dept_clash == -2000
W_subject_rotation == -50
W_faculty_preference == 100
W_workload_balance == -30

\* How often faculty f stands at slot s, as main or as assistant.
FacultyOcc(B, f, s) ==
    SumOver(GeneSet(B), [g \in GeneSet(B) |->
        Copies(B, g) * ((IF g.faculty_id = f /\ g.time_slot_id = s THEN 1 ELSE 0)
                      + (IF g.assistant_faculty_id # 0 /\ g.assistant_faculty_id = f
                            /\ g.time_slot_id = s THEN 1 ELSE 0))])

GeneFaculties(B) ==
    {g.faculty_id : g \in GeneSet(B)} \cup
    {g.assistant_faculty_id : g \in {h \in GeneSet(B) : h.assistant_faculty_id # 0}}
GeneSlots(B) == {g.time_slot_id : g \in GeneSet(B)}
GeneClasses(B) == {g.class_id : g \in GeneSet(B)}

\* Number of times "time_slot_id in faculty_schedule[...]" holds in the
\* first loop: every occurrence of a (faculty, slot) after the first.
FacultyClashes(B) ==
    LET FS == GeneFaculties(B) \X GeneSlots(B)
    IN  SumOver(FS, [fs \in FS |-> Max2(0, FacultyOcc(B, fs[1], fs[2]) - 1)])

\* Number of times "time_slot_id in class_schedule[class_id]" holds.
ClassClashes(B) ==
    LET CS == GeneClasses(B) \X GeneSlots(B)
    IN  SumOver(CS, [cs \in CS |-> Max2(0, GenesAt(B, cs[1], cs[2]) - 1)])

\* faculty_hours[f]
FacultyHours(B, f) ==
    SumOver(GeneSet(B), [g \in GeneSet(B) |->
        Copies(B, g) * ((IF g.faculty_id = f THEN 1 ELSE 0)
                      + (IF g.assistant_faculty_id # 0 /\ g.assistant_faculty_id = f
                            THEN 1 ELSE 0))])

\* Hours over the workload limit, summed over the faculty.
WorkloadExcess(c, B) ==
    LET F == GeneFaculties(B)
    IN  SumOver(F, [f \in F |-> Max2(0, FacultyHours(B, f) - c.max_hours[f])])

\* Number of genes whose main faculty prefers the gene's subject.
PreferenceMatches(c, B) ==
    CountGenes(B, [g \in GeneSet(B) |-> g.subject_id \in c.prefs[g.faculty_id]])

\* Number of (gene, faculty) pairs on a pre-booked slot of the faculty.
CrossDeptClashes(c, B) ==
    SumOver(GeneSet(B), [g \in GeneSet(B) |->
        Copies(B, g) *
            ((IF g.time_slot_id \in c.pre_booked[g.faculty_id] THEN 1 ELSE 0)
           + (IF g.assistant_faculty_id # 0
                 /\ g.time_slot_id \in c.pre_booked[g.assistant_faculty_id]
              THEN 1 ELSE 0))])

\* Number of genes whose main faculty taught the subject in another term.
RotationHits(c, B) ==
    CountGenes(B, [g \in GeneSet(B) |-> g.subject_id \in c.history[g.faculty_id]])

\* The (class, subject) pairs that have lab genes.
LabPairs(B) ==
    {<<g.class_id, g.subject_id>> : g \in {h \in GeneSet(B) : h.is_lab}}

\* _check_lab_continuity(slot_ids) for the lab genes of a pair that has
\* three of them: three different slots, one day, consecutive periods.
_check_lab_continuity(S) ==
    /\ Cardinality(S) = 3
    /\ Cardinality({DayOf(s) : s \in S}) = 1
    /\ LET lo == CHOOSE p \in {PeriodOf(s) : s \in S} :
                    \A q \in {PeriodOf(s) : s \in S} : p <= q
       IN  {PeriodOf(s) : s \in S} = {lo, lo + 1, lo + 2}

\* A timing check that counts period 4 as a morning period (used as a
\* mutant of _check_lab_timing).
CheckLabTimingUpToLunch(S) ==
    \/ \A s \in S : PeriodOf(s) <= 4
    \/ \A s \in S : PeriodOf(s) >= 5

_check_lab_timing(S) ==
    \/ \A s \in S : PeriodOf(s) <= 3
    \/ \A s \in S : PeriodOf(s) >= 5

\* Pairs with a number of lab genes other than three.
WrongCountLabs(B) ==
    {cs \in LabPairs(B) : LabCount(B, cs[1], cs[2]) # 3}

\* Pairs with three lab genes that are not three continuous periods.
BrokenLabs(B) ==
    {cs \in LabPairs(B) :
        /\ LabCount(B, cs[1], cs[2]) = 3
        /\ ~_check_lab_continuity(LabSlots(B, cs[1], cs[2]))}

\* Pairs with three lab genes that mix morning and afternoon.
MistimedLabs(B) ==
    {cs \in LabPairs(B) :
        /\ LabCount(B, cs[1], cs[2]) = 3
        /\ ~_check_lab_timing(LabSlots(B, cs[1], cs[2]))}

\* lab_day_half_usage: per (day, half), the classes with a lab gene in it.
LabDayClashes(B) ==
    LET labs == {g \in GeneSet(B) : g.is_lab}
        DH == {<<DayOf(g.time_slot_id), HalfOf(g.time_slot_id)>> : g \in labs}
        count(dh) == Cardinality({g.class_id : g \in {h \in labs :
                         <<DayOf(h.time_slot_id), HalfOf(h.time_slot_id)>> = dh}})
    IN  SumOver(DH, [dh \in DH |-> Max2(0, count(dh) - 1)])

\* lab_slot_usage: per (lab subject, slot), the classes holding it.
LabRoomClashes(B) ==
    LET labs == {g \in GeneSet(B) : g.is_lab}
        SS == {<<g.subject_id, g.time_slot_id>> : g \in labs}
        count(ss) == Cardinality({g.class_id : g \in {h \in labs :
                         <<h.subject_id, h.time_slot_id>> = ss}})
    IN  SumOver(SS, [ss \in SS |-> Max2(0, count(ss) - 1)])

\* The workload balance term times the number n of faculty with hours:
\* W * (|hours - avg| - 5) for every faculty with |hours - avg| > 5.
BalanceTimesN(B) ==
    LET F == GeneFaculties(B)
        n == Cardinality(F)
        total == SumOver(F, [f \in F |-> FacultyHours(B, f)])
    IN  SumOver(F, [f \in F |->
            LET devN == Abs(n * FacultyHours(B, f) - total)
            IN  IF devN > 5 * n THEN W_workload_balance * (devN - 5 * n) ELSE 0])

\* calculate_fitness(chromosome), times FitScale(c).
calculate_fitness(c, B) ==
    FitScale(c) *
        ( W_faculty_clash * FacultyClashes(B)
        + W_class_clash * ClassClashes(B)
        + W_faculty_preference * PreferenceMatches(c, B)
        + W_cross_dept_clash * CrossDeptClashes(c, B)
        + W_workload_exceeded * WorkloadExcess(c, B)
        + W_lab_continuity * 2 * Cardinality(WrongCountLabs(B))
        + W_lab_continuity * Cardinality(BrokenLabs(B))
        + W_lab_timing * Cardinality(MistimedLabs(B))
        + W_lab_day_clash * LabDayClashes(B)
        + W_lab_room_clash * LabRoomClashes(B)
        + W_subject_rotation * RotationHits(c, B) )
    + (IF GeneSet(B) = {} THEN 0
       ELSE (FitScale(c) \div Cardinality(GeneFaculties(B))) * BalanceTimesN(B))

-----------------------------------------------------------------------------
(* The operators of the genetic algorithm.  Each is the set of the values  *)
(* the function can return, over the outcomes of its random.* calls.       *)

ReplaceGene(B, old, new) == (B (-) SetToBag({old})) (+) SetToBag({new})

\* The genes of class k in bag B, as a bag.
ClassGenes(B, k) ==
    LET S == {g \in GeneSet(B) : g.class_id = k}
    IN  [g \in S |-> Copies(B, g)]

RECURSIVE BagSum(_, _)
\* The sum of the bags f[x], x in S.
BagSum(S, f) ==
    IF S = {} THEN EmptyBag
    ELSE LET x == CHOOSE y \in S : TRUE IN f[x] (+) BagSum(S \ {x}, f)

\* tournament_selection: the fittest of a sample of
\* min(tournament_size, len(population)) members.
tournament_selection(pop, tournament_size) ==
    LET k == Min2(tournament_size, Len(pop))
    IN  {pop[i] : i \in {j \in 1..Len(pop) :
            \E T \in SUBSET (1..Len(pop)) :
                /\ Cardinality(T) = k
                /\ j \in T
                /\ \A m \in T : pop[m].fitness <= pop[j].fitness}}

\* A crossover that adds the other parent's genes of the swapped classes to
\* the child's own (used as a mutant of crossover).
crossoverKeepOwn(parent1, parent2) ==
    LET all_classes == GeneClasses(parent1.genes) \cup GeneClasses(parent2.genes)
        half == Cardinality(all_classes) \div 2
        child(own, other, classes_to_swap) ==
            Chromosome(
                own.genes (+) BagSum(classes_to_swap,
                    [k \in classes_to_swap |-> ClassGenes(other.genes, k)]),
                own.fitness)
    IN  {<<parent1, parent2>>} \cup
        {<<child(parent1, parent2, sw), child(parent2, parent1, sw)>> :
            sw \in {T \in SUBSET all_classes : Cardinality(T) = half}}

\* A crossover whose second child is a copy of the second parent (used as
\* a mutant of crossover).
crossoverOneSided(parent1, parent2) ==
    LET all_classes == GeneClasses(parent1.genes) \cup GeneClasses(parent2.genes)
        half == Cardinality(all_classes) \div 2
        child(own, other, classes_to_swap) ==
            Chromosome(
                BagSum(all_classes, [k \in all_classes |->
                    IF k \in classes_to_swap THEN ClassGenes(other.genes, k)
                                             ELSE ClassGenes(own.genes, k)]),
                own.fitness)
    IN  {<<parent1, parent2>>} \cup
        {<<child(parent1, parent2, sw), parent2>> :
            sw \in {T \in SUBSET all_classes : Cardinality(T) = half}}

\* crossover: <<child1, child2>>.  The children keep the parents' fitness
\* until calculate_fitness is called on them.
crossover(parent1, parent2) ==
    LET all_classes == GeneClasses(parent1.genes) \cup GeneClasses(parent2.genes)
        half == Cardinality(all_classes) \div 2
        child(own, other, classes_to_swap) ==
            Chromosome(
                BagSum(all_classes, [k \in all_classes |->
                    IF k \in classes_to_swap THEN ClassGenes(other.genes, k)
                                             ELSE ClassGenes(own.genes, k)]),
                own.fitness)
    IN  {<<parent1, parent2>>} \cup
        {<<child(parent1, parent2, sw), child(parent2, parent1, sw)>> :
            sw \in {T \in SUBSET all_classes : Cardinality(T) = half}}

\* A swap_slot that moves the first gene to the slot of the second and
\* leaves the second where it is (used as a mutant of MutateSwapSlot).
MutateCopySlot(ch) ==
    LET B == ch.genes
        non_lab_genes == {g \in GeneSet(B) : ~g.is_lab}
    IN  {ch} \cup
        {Chromosome(
            ReplaceGene(B, pr[1], [pr[1] EXCEPT !.time_slot_id = pr[2].time_slot_id]),
            ch.fitness) :
            pr \in {x \in non_lab_genes \X non_lab_genes :
                       x[1].class_id = x[2].class_id /\ x[1] # x[2]}}

\* A swap_slot that draws its two genes from all the genes of a class
\* (used as a mutant of MutateSwapSlot).
MutateSwapSlotAnyGene(ch) ==
    LET B == ch.genes
    IN  {ch} \cup
        {Chromosome(
            ReplaceGene(ReplaceGene(B, pr[1],
                                    [pr[1] EXCEPT !.time_slot_id = pr[2].time_slot_id]),
                        pr[2], [pr[2] EXCEPT !.time_slot_id = pr[1].time_slot_id]),
            ch.fitness) :
            pr \in {x \in GeneSet(B) \X GeneSet(B) :
                       x[1].class_id = x[2].class_id /\ x[1] # x[2]}}

\* mutate: the chromosome itself, or a copy changed by one of the three
\* mutation types.
MutateSwapSlot(ch) ==
    LET B == ch.genes
        non_lab_genes == {g \in GeneSet(B) : ~g.is_lab}
    IN  {ch} \cup
        {Chromosome(
            ReplaceGene(ReplaceGene(B, gene1,
                                    [gene1 EXCEPT !.time_slot_id = gene2.time_slot_id]),
                        gene2, [gene2 EXCEPT !.time_slot_id = gene1.time_slot_id]),
            ch.fitness) :
            <<gene1, gene2>> \in
                {pr \in non_lab_genes \X non_lab_genes :
                    pr[1].class_id = pr[2].class_id /\ pr[1] # pr[2]}}

MutateChangeFaculty(c, ch) ==
    {Chromosome(ReplaceGene(ch.genes, gf[1], [gf[1] EXCEPT !.faculty_id = gf[2]]),
                ch.fitness) :
        gf \in {x \in GeneSet(ch.genes) \X c.faculties :
                   x[2] \in _get_eligible_faculty_for_subject(c, x[1].subject_id)}}

MutateSwapSubjects(ch) ==
    LET B == ch.genes
    IN  {ch} \cup
        {Chromosome(
            ReplaceGene(ReplaceGene(B, pr[1],
                                    [pr[1] EXCEPT !.faculty_id = pr[2].faculty_id]),
                        pr[2], [pr[2] EXCEPT !.faculty_id = pr[1].faculty_id]),
            ch.fitness) :
            pr \in {x \in GeneSet(B) \X GeneSet(B) :
                       /\ x[1].time_slot_id = x[2].time_slot_id
                       /\ x[1].class_id # x[2].class_id}}

mutate(c, ch) ==
    IF GeneSet(ch.genes) = {} THEN {ch}
    ELSE {ch} \cup MutateSwapSlot(ch) \cup MutateChangeFaculty(c, ch)
              \cup MutateSwapSubjects(ch)

\* A rewrite of the slot that also drops the assistant.
ReassignMainOnly(gene, slot) ==
    [gene EXCEPT !.time_slot_id = slot, !.assistant_faculty_id = 0]

\* gene.time_slot_id = new_lab_slots[i]
Reassign(gene, slot) ==
    [gene EXCEPT !.time_slot_id = slot]

\* _repair_labs on one (class, lab subject) pair: the bags that moving the
\* pair's three lab genes to a free block can give; {B} when the pair does
\* not have three lab genes, is continuous, or no block is found.
RepairPair(c, B, k, sid) ==
    LET lab == {g \in GeneSet(B) : g.is_lab /\ g.class_id = k /\ g.subject_id = sid}
        labBag == [g \in lab |-> Copies(B, g)]
        all_used_slots ==
            {g.time_slot_id : g \in {h \in GeneSet(B) :
                h.class_id = k /\ (h.subject_id # sid \/ ~h.is_lab)}}
        found == _find_lab_slots(c, all_used_slots, {}, [dh \in DayHalves(c) |-> 0])
        \* the three lab genes in the orders the gene list can hold them
        orders == {q \in [1..3 -> lab] :
                      \A g \in lab : Cardinality({i \in 1..3 : q[i] = g}) = labBag[g]}
    IN  IF LabCount(B, k, sid) # 3 \/ _check_lab_continuity(LabSlots(B, k, sid))
           \/ found = {}
        THEN {B}
        ELSE {(B (-) labBag) (+)
                  BagSum(1..3, [i \in 1..3 |->
                      SetToBag({Reassign(q[i], new_lab_slots[i])})]) :
                  q \in orders, new_lab_slots \in found}

RECURSIVE RepairAll(_, _, _)
\* The pairs of P repaired one after the other, in any order.
RepairAll(c, B, P) ==
    IF P = {} THEN {B}
    ELSE UNION {UNION {RepairAll(c, B2, P \ {cs}) : B2 \in RepairPair(c, B, cs[1], cs[2])} :
                   cs \in P}

_repair_labs(c, ch) ==
    {Chromosome(B, ch.fitness) :
        B \in RepairAll(c, ch.genes,
                        {cs \in LabPairs(ch.genes) :
                            /\ LabCount(ch.genes, cs[1], cs[2]) = 3
                            /\ ~_check_lab_continuity(LabSlots(ch.genes, cs[1], cs[2]))})}

Evaluate(c, ch) == Chromosome(ch.genes, calculate_fitness(c, ch.genes))

\* The index of the first member of pop with the largest fitness.
FirstMax(pop) ==
    CHOOSE i \in 1..Len(pop) :
        /\ \A j \in 1..Len(pop) : pop[j].fitness <= pop[i].fitness
        /\ \A j \in 1..(i - 1) : pop[j].fitness < pop[i].fitness

RECURSIVE SortByFitness(_)
\* population.sort(key=fitness, reverse=True): a stable sort.
SortByFitness(pop) ==
    IF pop = <<>> THEN <<>>
    ELSE LET i == FirstMax(pop)
         IN  <<pop[i]>> \o SortByFitness(SubSeq(pop, 1, i - 1) \o
                                         SubSeq(pop, i + 1, Len(pop)))

-----------------------------------------------------------------------------
(* The inputs the model is run on.                                         *)

\* Largest number of classes in a scenario.
MaxClasses == 3

\* Subject lists (one semester).  Subject ids double as subject codes.
LabOnlyCurricula ==
    { <<Subject(1, "LAB", 3, 1)>>,
      <<Subject(1, "LAB", 3, 1), Subject(2, "LAB", 3, 1)>>,
      <<Subject(1, "LAB", 3, 1), Subject(2, "LAB", 3, 1), Subject(3, "LAB", 3, 1)>> }

LightCurricula ==
    LabOnlyCurricula \cup
    { <<Subject(1, "LAB", 3, 1), Subject(2, "LAB", 3, 1), Subject(5, "ELECTIVE", 3, 1)>> }

MediumCurricula ==
    LightCurricula \cup
    { <<Subject(1, "LAB", 3, 1), Subject(2, "THEORY", 2, 1)>>,
      <<Subject(1, "LAB", 3, 1), Subject(2, "LAB", 3, 1), Subject(3, "LAB", 3, 1),
        Subject(4, "THEORY", 1, 1), Subject(5, "ELECTIVE", 3, 1)>>,
      <<Subject(4, "THEORY", 6, 1), Subject(5, "ELECTIVE", 1, 1)>> }

Curricula ==
    MediumCurricula \cup
    { <<Subject(4, "THEORY", 2, 1), Subject(5, "THEORY", 3, 1)>>,
      <<Subject(4, "THEORY", 4, 1), Subject(5, "ELECTIVE", 3, 1)>> }

\* The subject lists tried for a week of d days and n classes: every list
\* for the smallest size, the lists with less to place for the larger ones.
CurriculaFor(d, n) ==
    IF d * n = 1 THEN Curricula
    ELSE IF d = 1 /\ n = 2 THEN MediumCurricula
    ELSE IF d = 2 /\ n = 1 THEN LightCurricula
    ELSE LabOnlyCurricula

\* Faculty pools: preferences, workload limits, history and pre-booked slots.
FacultyPools ==
    { [faculties |-> {1, 2},
       max_hours |-> [f \in {1, 2} |-> 20],
       prefs |-> [f \in {1, 2} |-> {}],
       history |-> [f \in {1, 2} |-> {}],
       pre_booked |-> [f \in {1, 2} |-> {}]],
      [faculties |-> {1, 2, 3},
       max_hours |-> [f \in {1, 2, 3} |-> IF f = 1 THEN 18 ELSE 20],
       prefs |-> [f \in {1, 2, 3} |-> IF f = 1 THEN {1, 2} ELSE IF f = 2 THEN {1} ELSE {}],
       history |-> [f \in {1, 2, 3} |-> IF f = 3 THEN {2} ELSE {}],
       pre_booked |-> [f \in {1, 2, 3} |-> IF f = 1 THEN {1, 2} ELSE {}]] }

\* The parameters of GeneticAlgorithm.__init__.
Params(population_size, generations, elite_count, tournament_size) ==
    [population_size |-> population_size, generations |-> generations,
     elite_count |-> elite_count, tournament_size |-> tournament_size]

Scenario(days, nclasses, subjects, pool) ==
    [days |-> days,
     classes |-> 1..nclasses,
     class_sem |-> [k \in 1..nclasses |-> 1],
     subjects |-> subjects,
     faculties |-> pool.faculties,
     max_hours |-> pool.max_hours,
     prefs |-> pool.prefs,
     history |-> pool.history,
     pre_booked |-> pool.pre_booked,
     params |-> Params(1, 1, 0, 1)]

ConsScenarios ==
    UNION {{Scenario(dn[1], dn[2], k, p) :
                k \in CurriculaFor(dn[1], dn[2]), p \in FacultyPools} :
           dn \in (1..MaxDays) \X (1..MaxClasses)}

NoChromosome == Chromosome(EmptyBag, 0)

\* evolve and the entry point have not started.
EvolveIdle ==
    /\ population = <<>>
    /\ new_population = <<>>
    /\ best_ever = NoChromosome
    /\ fitness_history = <<>>
    /\ generation = 0
    /\ best_evaluated = 0
    /\ gens_run = 0
    /\ db = EmptyBag
    /\ fsa = {}
    /\ result = [status |-> "none"]
    /\ requests = <<>>

-----------------------------------------------------------------------------
(* SpecCons: one call of _create_random_chromosome on loaded data.         *)

InitCons ==
    /\ cfg \in ConsScenarios
    /\ pc = "cons_class"
    /\ ConsEntry(cfg)
    /\ EvolveIdle

SpecCons == InitCons /\ [][ConsNext]_vars

-----------------------------------------------------------------------------
(* evolve, and the entry point generate_department_timetable around it.    *)

\* Number of chromosomes in the population.
PopulationSize == 2

\* Number of generations evolve may run.
MaxGenerations == 3

\* Largest elite_count tried.
MaxElite == 1

\* Size of a tournament.
TournamentSize == 2

\* The term the run generates, and another term.
Term == "2024-ODD"
OtherTerm == "2023-EVEN"

\* A row that does not store the assistant.
EntryMainOnly(g, term) ==
    [class_id |-> g.class_id, subject_id |-> g.subject_id,
     faculty_id |-> g.faculty_id, time_slot_id |-> g.time_slot_id,
     is_lab |-> g.is_lab, assistant_faculty_id |-> 0,
     term |-> term]

\* The TimetableEntry row objects.create writes for gene g.
Entry(g, term) ==
    [class_id |-> g.class_id, subject_id |-> g.subject_id,
     faculty_id |-> g.faculty_id, time_slot_id |-> g.time_slot_id,
     is_lab |-> g.is_lab, assistant_faculty_id |-> g.assistant_faculty_id,
     term |-> term]

\* initialize_population: the next call of _create_random_chromosome.
InitializePopulationNext ==
    /\ pc = "cons_returned"
    /\ Len(population) < cfg.params.population_size
    /\ ConsReenter(cfg)
    /\ pc' = "cons_class"
    /\ UNCHANGED <<cfg, evoVars, db, fsa, result, requests>>

\* evolve: "for chromosome in population: calculate_fitness" and
\* "best_ever = max(population, key=fitness)".
EvaluateInitial ==
    /\ pc = "cons_returned"
    /\ Len(population) >= cfg.params.population_size
    /\ LET pop == [i \in 1..Len(population) |-> Evaluate(cfg, population[i])]
       IN  /\ population' = pop
           /\ best_ever' = pop[FirstMax(pop)]
           /\ best_evaluated' = pop[FirstMax(pop)].fitness
    /\ fitness_history' = <<>>
    /\ generation' = 0
    /\ pc' = "gen_head"
    /\ UNCHANGED <<cfg, consVars, new_population, gens_run, db, fsa, result, requests>>

\* The loop header read as "generation + 1 iterations at most" (used as a
\* mutant of InRange).
InRangeInclusive(c, g) == g <= c.params.generations

\* for generation in range(self.generations): generation g is in the range.
InRange(c, g) == g < c.params.generations

\* Track best without the comparison (used as a mutant of TrackBest).
TrackBestAlways(current_best, best) == current_best

\* if current_best.fitness > best_ever.fitness: best_ever = current_best.copy()
TrackBest(current_best, best) ==
    IF current_best.fitness > best.fitness THEN current_best ELSE best

\* The early termination test with a strict comparison (used as a mutant of
\* GoodEnough).
GoodEnoughStrict(current_best) == current_best.fitness > 0

\* if current_best.fitness >= 0: break
GoodEnough(current_best) == current_best.fitness >= 0

\* An elitism that keeps the least fit chromosomes (used as a mutant of
\* Elite).
EliteWorst(sorted, elite_count) ==
    SubSeq(sorted, Len(sorted) - elite_count + 1, Len(sorted))

\* No elitism (used as a mutant of Elite).
EliteNone(sorted, elite_count) == <<>>

\* for i in range(self.elite_count): new_population.append(population[i].copy())
Elite(sorted, elite_count) ==
    SubSeq(sorted, 1, elite_count)

\* The head of one iteration of the generation loop: sort, track the best,
\* record the history, stop when the current best is >= 0, else copy the
\* elite into the new population.
GenerationHead ==
    /\ pc = "gen_head"
    /\ InRange(cfg, generation)
    /\ LET sorted == SortByFitness(population)
           current_best == sorted[1]
       IN  /\ population' = sorted
           /\ best_ever' = TrackBest(current_best, best_ever)
           /\ fitness_history' = Append(fitness_history, current_best.fitness)
           /\ IF GoodEnough(current_best)
              THEN /\ pc' = "evolved"
                   /\ new_population' = <<>>
              ELSE /\ pc' = "breed"
                   /\ new_population' = Elite(sorted, cfg.params.elite_count)
    /\ gens_run' = gens_run + 1
    /\ UNCHANGED <<cfg, consVars, generation, best_evaluated, db, fsa, result, requests>>

\* One iteration of "while len(new_population) < self.population_size".
Breed ==
    /\ pc = "breed"
    /\ Len(new_population) < cfg.params.population_size
    /\ \E parent1 \in tournament_selection(population, cfg.params.tournament_size) :
       \E parent2 \in tournament_selection(population, cfg.params.tournament_size) :
       \E xo \in crossover(parent1, parent2) :
       \E m1 \in mutate(cfg, xo[1]) : \E m2 \in mutate(cfg, xo[2]) :
       \E r1 \in _repair_labs(cfg, m1) : \E r2 \in _repair_labs(cfg, m2) :
          LET child1 == Evaluate(cfg, r1)
              child2 == Evaluate(cfg, r2)
          IN  /\ new_population' =
                     IF Len(new_population) + 1 < cfg.params.population_size
                     THEN new_population \o <<child1, child2>>
                     ELSE Append(new_population, child1)
              /\ best_evaluated' = Max2(best_evaluated, Max2(child1.fitness, child2.fitness))
    /\ UNCHANGED <<cfg, pc, consVars, population, best_ever, fitness_history,
                   generation, gens_run, db, fsa, result, requests>>

\* "population = new_population", and on to the next generation.
EndGeneration ==
    /\ pc = "breed"
    /\ Len(new_population) >= cfg.params.population_size
    /\ population' = new_population
    /\ new_population' = <<>>
    /\ generation' = generation + 1
    /\ pc' = "gen_head"
    /\ UNCHANGED <<cfg, consVars, best_ever, fitness_history, best_evaluated,
                   gens_run, db, fsa, result, requests>>

\* range(self.generations) is exhausted: return best_ever, fitness_history.
LoopExhausted ==
    /\ pc = "gen_head"
    /\ ~InRange(cfg, generation)
    /\ pc' = "evolved"
    /\ UNCHANGED <<cfg, consVars, evoVars, db, fsa, result, requests>>

-----------------------------------------------------------------------------
(* Persistence: the end of generate_department_timetable.  Each ORM call   *)
(* commits on its own: the function opens no transaction.                  *)

\* A key that orders the genes; the rows are written in the order of the
\* gene list, for which the model takes the order of the keys.
GeneKey(g) ==
    ((((g.class_id * 100 + g.time_slot_id) * 10 + g.subject_id) * 10
        + g.faculty_id) * 10 + g.assistant_faculty_id) * 2
    + (IF g.is_lab THEN 1 ELSE 0)

RECURSIVE GeneList(_)
\* The genes of bag B as a list.
GeneList(B) ==
    IF B = EmptyBag THEN <<>>
    ELSE LET g == CHOOSE x \in GeneSet(B) :
                      \A y \in GeneSet(B) : GeneKey(x) <= GeneKey(y)
         IN  <<g>> \o GeneList(B (-) SetToBag({g}))

\* A delete that filters on the semesters alone.
AfterDeleteAnyTerm(c, rows) ==
    LET keep == {e \in BagToSet(rows) : ~(e.class_id \in c.classes)}
    IN  [e \in keep |-> CopiesIn(e, rows)]

\* The rows TimetableEntry...filter(class_section__semester_id__in=
\* semester_ids, semester_instance=semester_instance).delete() leaves.
AfterDelete(c, rows) ==
    LET keep == {e \in BagToSet(rows) : ~(e.class_id \in c.classes /\ e.term = Term)}
    IN  [e \in keep |-> CopiesIn(e, rows)]

\* The unique key (class_section, time_slot, term) of TimetableEntry is free
\* for a new row e.
UniqueKeyFree(rows, e) ==
    \A r \in BagToSet(rows) :
        ~(r.class_id = e.class_id /\ r.time_slot_id = e.time_slot_id /\ r.term = e.term)

RECURSIVE InsertRows(_, _, _)
\* rows after TimetableEntry.objects.create for the first k genes of list.
InsertRows(rows, list, k) ==
    IF k = 0 THEN rows
    ELSE InsertRows(rows, list, k - 1) (+) SetToBag({Entry(list[k], Term)})

\* FacultySubjectAssignment.objects.get_or_create(...) for one row.
GetOrCreate(rows, f, g, is_main) ==
    IF \E r \in rows : /\ r.faculty_id = f /\ r.subject_id = g.subject_id
                       /\ r.term = Term /\ r.class_id = g.class_id
    THEN rows
    ELSE rows \cup {[faculty_id |-> f, subject_id |-> g.subject_id, term |-> Term,
                     class_id |-> g.class_id, is_main |-> is_main]}

RECURSIVE Assignments(_, _, _)
\* The assignment rows after the loop body has run for the first k genes.
Assignments(rows, list, k) ==
    IF k = 0 THEN rows
    ELSE LET g == list[k]
             main == GetOrCreate(Assignments(rows, list, k - 1), g.faculty_id, g, TRUE)
         IN  IF g.assistant_faculty_id # 0
             THEN GetOrCreate(main, g.assistant_faculty_id, g, FALSE)
             ELSE main

\* Delete the department's rows of the term, then write the best solution
\* gene by gene.  The create of gene k + 1 may raise: the unique key is
\* taken, or the database fails; it raises through the entry point, and
\* what was deleted and written before stays.
Persist ==
    /\ pc = "evolved"
    /\ LET list == GeneList(best_ever.genes)
           cleared == AfterDelete(cfg, db)
       IN  \E k \in 0..Len(list) :
              /\ \A i \in 1..k :
                     UniqueKeyFree(InsertRows(cleared, list, i - 1), Entry(list[i], Term))
              /\ db' = InsertRows(cleared, list, k)
              /\ fsa' = Assignments(fsa, list, k)
              /\ result' =
                     IF k = Len(list)
                     THEN [status |-> "success", total_entries |-> k,
                           final_fitness |-> best_ever.fitness,
                           generations_run |-> Len(fitness_history)]
                     ELSE [status |-> "raised"]
    /\ pc' = "done"
    /\ UNCHANGED <<cfg, consVars, evoVars, requests>>

EvolveNext ==
    \/ InitializePopulationNext
    \/ EvaluateInitial
    \/ GenerationHead
    \/ Breed
    \/ EndGeneration
    \/ LoopExhausted
    \/ Persist

-----------------------------------------------------------------------------
(* Spec: a run of generate_department_timetable: the population is built   *)
(* by the constructor, evolved, and the best chromosome is written.        *)

\* One class with a single lab; faculty 1 is over its workload limit as
\* soon as it holds the whole lab.  Faculty 2 is pre-booked by another
\* department in the slots booked: with the first period of each half day
\* booked the constructor gives the lab to faculty 1 alone.
LabRun(generations, elite_count, booked) ==
    [Scenario(1, 1, <<Subject(1, "LAB", 3, 1)>>,
              [faculties |-> {1, 2},
               max_hours |-> [f \in {1, 2} |-> IF f = 1 THEN 2 ELSE 20],
               prefs |-> [f \in {1, 2} |-> {}],
               history |-> [f \in {1, 2} |-> {}],
               pre_booked |-> [f \in {1, 2} |-> IF f = 2 THEN booked ELSE {}]])
        EXCEPT !.params = Params(PopulationSize, generations, elite_count, TournamentSize)]

\* Two classes with a lab and a theory subject.  Faculty 1 prefers the lab,
\* faculty 2 prefers the theory subject and has the workload limit cap.
ClassRun(generations, elite_count, cap) ==
    [Scenario(1, 2, <<Subject(1, "LAB", 3, 1), Subject(2, "THEORY", 2, 1)>>,
              [faculties |-> {1, 2},
               max_hours |-> [f \in {1, 2} |-> IF f = 2 THEN cap ELSE 20],
               prefs |-> [f \in {1, 2} |-> {f}],
               history |-> [f \in {1, 2} |-> {}],
               pre_booked |-> [f \in {1, 2} |-> {}]])
        EXCEPT !.params = Params(PopulationSize, generations, elite_count, TournamentSize)]

\* One class with three labs in a week of MaxDays days; faculty 2 is
\* pre-booked in the first period of every half day and faculty 1 is over
\* its workload limit with two labs.
ThreeLabRun(generations, elite_count) ==
    [Scenario(MaxDays, 1,
              <<Subject(1, "LAB", 3, 1), Subject(2, "LAB", 3, 1), Subject(3, "LAB", 3, 1)>>,
              [faculties |-> {1, 2},
               max_hours |-> [f \in {1, 2} |-> IF f = 1 THEN 5 ELSE 20],
               prefs |-> [f \in {1, 2} |-> {}],
               history |-> [f \in {1, 2} |-> {}],
               pre_booked |-> [f \in {1, 2} |->
                   IF f = 2 THEN {SlotId(d, p) : d \in 1..MaxDays, p \in {1, 5}}
                   ELSE {}]])
        EXCEPT !.params = Params(PopulationSize, generations, elite_count, TournamentSize)]

\* One class with one theory subject of five hours that either faculty can
\* teach; another department has booked faculty 1 in the first period.
BookedRun(generations, elite_count) ==
    [Scenario(1, 1, <<Subject(1, "THEORY", 5, 1)>>,
              [faculties |-> {1, 2},
               max_hours |-> [f \in {1, 2} |-> 20],
               prefs |-> [f \in {1, 2} |-> {}],
               history |-> [f \in {1, 2} |-> {}],
               pre_booked |-> [f \in {1, 2} |-> IF f = 1 THEN {1} ELSE {}]])
        EXCEPT !.params = Params(PopulationSize, generations, elite_count, TournamentSize)]

EvolveScenarios ==
    {LabRun(g, e, {1, 5}) : g \in 1..MaxGenerations, e \in 0..MaxElite}
    \cup {ThreeLabRun(1, MaxElite)}
    \cup {LabRun(1, MaxElite, {})}
    \cup {ClassRun(g, MaxElite, 7) : g \in 1..MaxGenerations}
    \cup {ClassRun(1, MaxElite, 20)}
    \cup {BookedRun(1, MaxElite)}

\* The rows of the table before the run: the department's timetable of an
\* earlier run for the term, a row of the department for another term, and
\* the rows of other departments that pre-book the shared faculty.
InitialRows(c) ==
    SetToBag(
        {Entry(Gene(k, c.subjects[1].id, 1, 1, FALSE, 0), Term) : k \in c.classes}
        \cup {Entry(Gene(1, c.subjects[1].id, 1, 1, FALSE, 0), OtherTerm)}
        \cup {Entry(Gene(10 + fs[1], 9, fs[1], fs[2], FALSE, 0), Term) :
                 fs \in {x \in c.faculties \X SlotsOf(c) : x[2] \in c.pre_booked[x[1]]}})

Init ==
    /\ cfg \in EvolveScenarios
    /\ pc = "cons_class"
    /\ ConsEntry(cfg)
    /\ population = <<>>
    /\ new_population = <<>>
    /\ best_ever = NoChromosome
    /\ fitness_history = <<>>
    /\ generation = 0
    /\ best_evaluated = 0
    /\ gens_run = 0
    /\ db = InitialRows(cfg)
    /\ fsa = {}
    /\ result = [status |-> "none"]
    /\ requests = <<>>

Next == ConsNext \/ EvolveNext

Spec == Init /\ [][Next]_vars

-----------------------------------------------------------------------------
(* Properties of the chromosome _create_random_chromosome returns.         *)

\* The chromosome the constructor has just returned.
Built == population[Len(population)].genes

LabIds(c) == {sid \in SubjectIds(c) : subject_info(c, sid).subject_type = "LAB"}

HasFillable(c, class_id) == SubjectsOfType(c, class_id, {"THEORY", "ELECTIVE"}) # <<>>

\* S is three slots of one day with consecutive periods.
ContiguousBlock(S) ==
    /\ Cardinality(S) = 3
    /\ Cardinality({DayOf(s) : s \in S}) = 1
    /\ \E p \in 1..PeriodsPerDay : {PeriodOf(s) : s \in S} = {p, p + 1, p + 2}

\* S lies in one day and fills the morning block or the afternoon block.
HalfDayBlock(S) ==
    /\ Cardinality({DayOf(s) : s \in S}) = 1
    /\ {PeriodOf(s) : s \in S} \in {{1, 2, 3}, {5, 6, 7}}

\* C1: a chromosome returned by the constructor holds, for every class that
\* has a THEORY or ELECTIVE subject, exactly one gene per loaded teaching
\* slot: none missing, none repeated, none outside the loaded slots.
C1_OneGenePerSlot ==
    pc = "cons_returned" =>
        \A c \in cfg.classes :
            HasFillable(cfg, c) =>
                /\ \A s \in SlotsOf(cfg) : GenesAt(Built, c, s) = 1
                /\ GenesOfClass(Built, c) = cfg.days * PeriodsPerDay

\* C1 witness: a chromosome was returned for two classes that hold a lab
\* and a theory subject each, and the fill pass added genes of the theory
\* subject beyond its hours_per_week.
C1_Witness ==
    /\ pc = "cons_returned"
    /\ Cardinality(cfg.classes) = 2
    /\ \A c \in cfg.classes :
          /\ HasFillable(cfg, c)
          /\ \E g \in GeneSet(Built) : g.class_id = c /\ g.is_lab
          /\ \E sid \in SubjectIds(cfg) :
                /\ subject_info(cfg, sid).subject_type = "THEORY"
                /\ CountGenes(Built, [g \in GeneSet(Built) |->
                                         g.class_id = c /\ g.subject_id = sid])
                       > subject_info(cfg, sid).hours_per_week

\* C8 as stated: every lab subject of a class is scheduled twice per week,
\* six lab genes for the (class, lab subject) pair.
C8_SixLabGenes ==
    pc = "cons_returned" =>
        \A c \in cfg.classes :
            \A i \in 1..Len(SubjectsOfType(cfg, c, {"LAB"})) :
                LabCount(Built, c, SubjectsOfType(cfg, c, {"LAB"})[i]) = 6

\* C8 amended: a lab subject of a class is scheduled at most once per week:
\* the (class, lab subject) pair has either no gene or three lab genes in
\* three contiguous periods of one day, and only the first two lab subjects
\* of the class can have genes.
C8_OneBlockPerLab ==
    pc = "cons_returned" =>
        \A c \in cfg.classes :
            \A i \in 1..Len(SubjectsOfType(cfg, c, {"LAB"})) :
                LET sid == SubjectsOfType(cfg, c, {"LAB"})[i]
                IN  /\ LabCount(Built, c, sid) \in {0, 3}
                    /\ i > 2 => LabCount(Built, c, sid) = 0
                    /\ LabCount(Built, c, sid) = 3 =>
                           ContiguousBlock(LabSlots(Built, c, sid))

\* C8 witness: a class with three lab subjects got its first two labs
\* scheduled while a free block was left for the third.
C8_Witness ==
    /\ pc = "cons_returned"
    /\ \E c \in cfg.classes :
          /\ Len(SubjectsOfType(cfg, c, {"LAB"})) = 3
          /\ LabCount(Built, c, 1) = 3
          /\ LabCount(Built, c, 2) = 3
          /\ LabCandidates(cfg, {g.time_slot_id : g \in {h \in GeneSet(Built) :
                                                            h.class_id = c}}) # {}

\* C9: every lab triple of a freshly constructed chromosome lies on one day
\* in periods {1,2,3} or in periods {5,6,7}.
C9_LabHalfDay ==
    pc = "cons_returned" =>
        \A c \in cfg.classes : \A sid \in LabIds(cfg) :
            LabSlots(Built, c, sid) # {} => HalfDayBlock(LabSlots(Built, c, sid))

\* C9 witness: three classes share a lab subject; two of them hold it, in
\* different half-days, and the third found every half-day block taken.
C9_Witness ==
    /\ pc = "cons_returned"
    /\ Cardinality(cfg.classes) = 3
    /\ \E c1, c2, c3 \in cfg.classes :
          /\ HalfDayBlock(LabSlots(Built, c1, 1))
          /\ HalfDayBlock(LabSlots(Built, c2, 1))
          /\ LabSlots(Built, c1, 1) # LabSlots(Built, c2, 1)
          /\ LabSlots(Built, c3, 1) = {}

(* Properties of evolve and of the entry point, checked under Spec.        *)

Last(s) == s[Len(s)]

\* evolve has returned.
Returned == pc \in {"evolved", "done"}

\* The hard constraints the early exit is said to guarantee.
Feasible(c, B) ==
    /\ FacultyClashes(B) = 0
    /\ ClassClashes(B) = 0
    /\ WorkloadExcess(c, B) = 0
    /\ BrokenLabs(B) = {}
    /\ CrossDeptClashes(c, B) = 0

\* C2: when evolve leaves its loop because the current best fitness is >= 0,
\* the returned chromosome has no faculty double-booking, no class
\* double-booking, no faculty over its workload limit, no non-contiguous lab
\* triple and no gene on a pre-booked slot of its faculty.
C2_NonNegativeIsFeasible ==
    (Returned /\ fitness_history # <<>> /\ Last(fitness_history) >= 0)
        => Feasible(cfg, best_ever.genes)

\* C3: the chromosome evolve returns is at least as fit as every chromosome
\* calculate_fitness was called on during the run, the offspring of the
\* last generation included.
C3_ReturnsBestEvaluated ==
    Returned => best_ever.fitness >= best_evaluated

\* C4: during a run of evolve the fitness of best_ever never decreases.
C4_BestEverMonotone ==
    [][(pc = "gen_head" \/ pc = "breed") => best_ever'.fitness >= best_ever.fitness]_vars

\* C4 witness: the best of the second generation was worse than the best of
\* the first, and best_ever kept the first.
C4_Witness ==
    /\ Len(fitness_history) >= 2
    /\ fitness_history[2] < fitness_history[1]
    /\ best_ever.fitness = fitness_history[1]

\* C5: evolve stops at the first generation whose best fitness is >= 0 and
\* builds no population after it: no population is being built while the
\* last recorded best is >= 0, every history entry but the last is negative,
\* and a run whose initial population has a member with fitness >= 0 ends
\* with a history of one entry.
C5_EarlyStop ==
    /\ [](/\ \A i \in 1..(Len(fitness_history) - 1) : fitness_history[i] < 0
          /\ pc = "breed" => Last(fitness_history) < 0
          /\ (Returned /\ Last(fitness_history) >= 0) => new_population = <<>>)
    /\ [][(pc = "gen_head" /\ generation = 0 /\ best_ever.fitness >= 0)
              => (pc' = "evolved" /\ Len(fitness_history') = 1)]_vars

\* C5 witness: evolve stopped in its second generation with a budget left.
C5_Witness ==
    /\ pc = "evolved"
    /\ Len(fitness_history) = 2
    /\ fitness_history[1] < 0
    /\ fitness_history[2] >= 0
    /\ cfg.params.generations > 2

\* C6: the fitness history has one entry per generation executed, never
\* more than the configured number of generations, and generations_run of
\* the entry point's result is that length.
C6_HistoryLength ==
    /\ Len(fitness_history) = gens_run
    /\ Len(fitness_history) <= cfg.params.generations
    /\ result.status = "success" => result.generations_run = gens_run

\* C6 witness: a run that used its whole budget of more than one generation
\* and was written.
C6_Witness ==
    /\ result.status = "success"
    /\ cfg.params.generations >= 2
    /\ result.generations_run = cfg.params.generations

\* Each class of B has at most two lab subjects, each with three lab genes.
LabShape(B) ==
    \A k \in GeneClasses(B) :
        LET labs == {g.subject_id : g \in {h \in GeneSet(B) : h.is_lab /\ h.class_id = k}}
        IN  /\ Cardinality(labs) <= 2
            /\ \A sid \in labs : LabCount(B, k, sid) = 3

\* C7: in every chromosome the constructor produces and in every chromosome
\* of every later generation, each class has at most two lab subjects
\* scheduled and each scheduled (class, lab subject) pair has exactly three
\* genes flagged is_lab.
C7_LabShape ==
    /\ \A i \in 1..Len(population) : LabShape(population[i].genes)
    /\ \A i \in 1..Len(new_population) : LabShape(new_population[i].genes)
    /\ LabShape(best_ever.genes)

\* C7 witness: an offspring of two classes, each with its lab, that is none
\* of the chromosomes of the generation it was bred from.
C7_Witness ==
    /\ pc = "breed"
    /\ Len(new_population) = cfg.params.population_size
    /\ LET ch == Last(new_population)
       IN  /\ Cardinality(GeneClasses(ch.genes)) = 2
           /\ \A k \in GeneClasses(ch.genes) : LabCount(ch.genes, k, 1) = 3
           /\ \A i \in 1..Len(population) : population[i].genes # ch.genes

\* The rows the department had for the term before the run.
OldRows(c) ==
    {e \in BagToSet(InitialRows(c)) : e.class_id \in c.classes /\ e.term = Term}

\* C10: when an insert raises after the delete step, the rows the department
\* had for the term before the run are still in the table.
C10_PersistAtomic ==
    result.status = "raised" =>
        \A e \in OldRows(cfg) : CopiesIn(e, db) >= CopiesIn(e, InitialRows(cfg))

-----------------------------------------------------------------------------
(* SpecTwo: two requests to generate_timetable_view for the same           *)
(* department and term.  Each request has the best chromosome evolve gave  *)
(* it and runs the persistence statements of generate_department_timetable *)
(* one by one; the function takes no lock and opens no transaction, so     *)
(* every ORM call commits on its own and the two requests interleave.      *)

\* The data both requests load: one class with one lab.
TwoCfg == LabRun(1, MaxElite, {})

\* The chromosomes the constructor builds for that data.
TwoChromosomes ==
    UNION {{Chromosome(SetToBag({Gene(1, 1, fa[1], s, TRUE, fa[2]) : s \in TripleSet(t)}), 0) :
               fa \in LabFacultyChoices(TwoCfg, 1, t, [f \in TwoCfg.faculties |-> {}])} :
           t \in _find_lab_slots(TwoCfg, {}, {}, [dh \in DayHalves(TwoCfg) |-> 0])}

\* The rows of the department's classes for the term.
StoredEntries(c, rows) ==
    LET S == {e \in BagToSet(rows) : e.class_id \in c.classes /\ e.term = Term}
    IN  [e \in S |-> CopiesIn(e, rows)]

\* The rows of the genes of list, as a bag.
EntriesOf(list) ==
    InsertRows(EmptyBag, list, Len(list))

InitTwo ==
    /\ cfg = TwoCfg
    /\ pc = "requests"
    /\ ConsEntry(cfg)
    /\ population = <<>>
    /\ new_population = <<>>
    /\ best_ever = NoChromosome
    /\ fitness_history = <<>>
    /\ generation = 0
    /\ best_evaluated = 0
    /\ gens_run = 0
    /\ db = InitialRows(cfg)
    /\ fsa = {}
    /\ result = [status |-> "none"]
    /\ requests \in [1..2 -> {[at |-> "evolved", list |-> GeneList(ch.genes), k |-> 0] :
                                ch \in TwoChromosomes}]

\* TimetableEntry.objects.filter(...).delete() of request i.
RequestDelete(i) ==
    /\ requests[i].at = "evolved"
    /\ db' = AfterDelete(cfg, db)
    /\ requests' = [requests EXCEPT ![i].at = "insert"]
    /\ UNCHANGED <<cfg, pc, consVars, evoVars, fsa, result>>

\* One iteration of "for gene in best_solution.genes" of request i: the
\* create and the get_or_create calls.
RequestInsert(i) ==
    /\ requests[i].at = "insert"
    /\ LET r == requests[i]
           g == r.list[r.k + 1]
           main == GetOrCreate(fsa, g.faculty_id, g, TRUE)
       IN  /\ UniqueKeyFree(db, Entry(g, Term))
           /\ db' = db (+) SetToBag({Entry(g, Term)})
           /\ fsa' = IF g.assistant_faculty_id # 0
                     THEN GetOrCreate(main, g.assistant_faculty_id, g, FALSE)
                     ELSE main
           /\ requests' = [requests EXCEPT
                  ![i].k = r.k + 1,
                  ![i].at = IF r.k + 1 = Len(r.list) THEN "done" ELSE "insert"]
    /\ UNCHANGED <<cfg, pc, consVars, evoVars, result>>

\* The create of request i is rejected by the unique key: the exception
\* leaves the function and the view answers 500.
RequestRaise(i) ==
    /\ requests[i].at = "insert"
    /\ ~UniqueKeyFree(db, Entry(requests[i].list[requests[i].k + 1], Term))
    /\ requests' = [requests EXCEPT ![i].at = "raised"]
    /\ UNCHANGED <<cfg, pc, consVars, evoVars, db, fsa, result>>

NextTwo ==
    \E i \in 1..2 : RequestDelete(i) \/ RequestInsert(i) \/ RequestRaise(i)

SpecTwo == InitTwo /\ [][NextTwo]_vars

\* Both requests have ended.
BothEnded ==
    /\ requests # <<>>
    /\ \A i \in DOMAIN requests : requests[i].at \in {"done", "raised"}

\* C11: two runs for the same (department, term) never interleave their
\* delete and insert steps: when both have ended no insert was rejected by
\* the unique key and the stored entries are exactly the genes of one run's
\* best chromosome.
C11_SingleWriter ==
    BothEnded =>
        /\ \A i \in DOMAIN requests : requests[i].at = "done"
        /\ \E i \in DOMAIN requests :
              StoredEntries(cfg, db) = EntriesOf(requests[i].list)

-----------------------------------------------------------------------------
(* SpecEntry: the two entry points on a database that lacks something:     *)
(* teaching slots, semesters of the active parity, classes or subjects     *)
(* with hours.  A world w is the part of the database they read:           *)
(*   entry          which entry point is called                            *)
(*   config         active_semester_type of the SystemConfiguration        *)
(*                  record, "NONE" when the table is empty                 *)
(*   dept_semesters the semester numbers the department has                *)
(*   semester_id    the semester given to generate_timetable               *)
(*   class_sem      the semester of each class section                     *)
(*   all_subjects   the Subject rows, with hours_per_week possibly 0       *)
(*   days           the days that have teaching slots                      *)

\* Days of the week in "expected_slots = 7 * 5".
ExpectedDays == 5

ConfigStates == {"ODD", "EVEN", "NONE"}

\* semester_numbers: the odd semester numbers when the configuration says
\* ODD, the even ones otherwise (also when there is no configuration).
ActiveNumbers(w) ==
    IF w.config = "ODD" THEN {1} ELSE {2}

\* The semesters whose classes and subjects the entry point loads.
TargetSemesters(w) ==
    IF w.entry = "department" THEN w.dept_semesters \cap ActiveNumbers(w)
    ELSE {w.semester_id}

\* classes: the class sections of the target semesters.
LoadedClasses(w) ==
    {k \in DOMAIN w.class_sem : w.class_sem[k] \in TargetSemesters(w)}

\* valid_subjects: the subjects of the target semesters with total_hours # 0.
LoadedSubjects(w) ==
    SelectSeq(w.all_subjects,
              LAMBDA s : s.semester_id \in TargetSemesters(w) /\ s.hours_per_week # 0)

\* A world together with the data load_data gets from it.
Loaded(w) ==
    [entry |-> w.entry, config |-> w.config, dept_semesters |-> w.dept_semesters,
     semester_id |-> w.semester_id, all_subjects |-> w.all_subjects,
     days |-> w.days,
     classes |-> LoadedClasses(w),
     class_sem |-> w.class_sem,
     subjects |-> LoadedSubjects(w),
     faculties |-> {1},
     max_hours |-> [f \in {1} |-> 20],
     prefs |-> [f \in {1} |-> {}],
     history |-> [f \in {1} |-> {}],
     pre_booked |-> [f \in {1} |-> {}],
     params |-> Params(PopulationSize, 1, MaxElite, TournamentSize)]

\* Something the run needs is missing.
Defective(c) ==
    \/ c.days # ExpectedDays
    \/ c.classes = {}
    \/ c.subjects = <<>>

EntryWorlds ==
    {c \in {Loaded([entry |-> e, config |-> g, dept_semesters |-> ds,
                    semester_id |-> 1, class_sem |-> cs, all_subjects |-> su,
                    days |-> d]) :
               e \in {"department", "semester"}, g \in ConfigStates,
               ds \in SUBSET {1, 2}, cs \in {<<>>, <<1>>, <<2>>},
               su \in {<<>>, <<Subject(1, "THEORY", 0, 1)>>,
                       <<Subject(1, "THEORY", 2, 1)>>, <<Subject(1, "THEORY", 2, 2)>>},
               d \in {0, ExpectedDays - 1, ExpectedDays}} :
        Defective(c)}

\* The timetable rows before the call: every class section has a row for
\* the term, and class 1 one for another term.
EntryRows(c) ==
    SetToBag({Entry(Gene(k, 1, 1, 1, FALSE, 0), Term) : k \in DOMAIN c.class_sem}
             \cup {Entry(Gene(1, 1, 1, 1, FALSE, 0), OtherTerm)})

InitEntry ==
    /\ cfg \in EntryWorlds
    /\ pc = "entry"
    /\ ConsEntry(cfg)
    /\ population = <<>>
    /\ new_population = <<>>
    /\ best_ever = NoChromosome
    /\ fitness_history = <<>>
    /\ generation = 0
    /\ best_evaluated = 0
    /\ gens_run = 0
    /\ db = EntryRows(cfg)
    /\ fsa = {}
    /\ result = [status |-> "none"]
    /\ requests = <<>>

Failure(error) == [status |-> "failure", error |-> error]

\* What the checks of generate_department_timetable before the run give:
\* a returned failure, a raised exception, or "go" when the run starts.
\* The messages of the first two checks read config.active_semester_type.
DepartmentChecks(c) ==
    IF c.dept_semesters \cap ActiveNumbers(c) = {}
    THEN IF c.config = "NONE" THEN [status |-> "raised"]
         ELSE Failure("No semesters found")
    ELSE IF c.classes = {}
    THEN IF c.config = "NONE" THEN [status |-> "raised"]
         ELSE Failure("No classes found")
    ELSE IF c.subjects = <<>> THEN Failure("No subjects found")
    ELSE IF SlotsOf(c) = {} THEN Failure("No time slots configured")
    ELSE IF Cardinality(SlotsOf(c)) # PeriodsPerDay * ExpectedDays
    THEN Failure("Invalid time slot configuration")
    ELSE [status |-> "go"]

\* The checks of generate_timetable before the run.
SemesterChecks(c) ==
    IF SlotsOf(c) = {} THEN Failure("No time slots configured")
    ELSE IF Cardinality(SlotsOf(c)) # PeriodsPerDay * ExpectedDays
    THEN Failure("Invalid time slot configuration")
    ELSE [status |-> "go"]

\* generate_department_timetable up to the start of the run.
DepartmentEntry ==
    /\ pc = "entry"
    /\ cfg.entry = "department"
    /\ LET r == DepartmentChecks(cfg)
       IN  IF r.status = "go"
           THEN pc' = "cons_class" /\ UNCHANGED result
           ELSE pc' = "done" /\ result' = r
    /\ UNCHANGED <<cfg, consVars, evoVars, db, fsa, requests>>

\* generate_timetable up to the start of the run.
SemesterEntry ==
    /\ pc = "entry"
    /\ cfg.entry = "semester"
    /\ LET r == SemesterChecks(cfg)
       IN  IF r.status = "go"
           THEN pc' = "cons_class" /\ UNCHANGED result
           ELSE pc' = "done" /\ result' = r
    /\ UNCHANGED <<cfg, consVars, evoVars, db, fsa, requests>>

\* The entry points and the steps of the run that data without subjects or
\* without classes can take: no lab, theory or fill step applies to it and
\* no generation is bred, since the empty chromosome has fitness 0.
NextEntry ==
    \/ DepartmentEntry
    \/ SemesterEntry
    \/ ConsNextClass
    \/ ConsLabsDone
    \/ ConsFillBegin
    \/ ConsReturn
    \/ InitializePopulationNext
    \/ EvaluateInitial
    \/ GenerationHead
    \/ Persist

SpecEntry == InitEntry /\ [][NextEntry]_vars

\* C12: generate_department_timetable returns a failure and deletes or
\* writes no timetable entry whenever no teaching slot exists, the slot
\* count differs from 35, the department has no semester of the active
\* parity, no class exists or no subject with positive hours exists, for
\* every state of the system configuration; the failure is returned, not
\* raised.
C12_DepartmentFailure ==
    (pc = "done" /\ cfg.entry = "department" /\ Defective(cfg)) =>
        /\ result.status = "failure"
        /\ db = EntryRows(cfg)

\* C13: generate_timetable returns a failure and leaves the timetable
\* entries of the semester and term untouched when the semester has no
\* class or no subject with positive hours.
C13_SemesterFailure ==
    (pc = "done" /\ cfg.entry = "semester"
        /\ (cfg.classes = {} \/ cfg.subjects = <<>>)) =>
        /\ result.status = "failure"
        /\ db = EntryRows(cfg)

-----------------------------------------------------------------------------
(* The rows a run of generate_department_timetable touches.                *)

\* C14: the timetable rows whose class is not one of the department's
\* classes of the active parity, or whose term is not the term of the run,
\* are at every moment of the run the rows that were there before it.
C14_FrameOfRun ==
    db (-) StoredEntries(cfg, db)
        = InitialRows(cfg) (-) StoredEntries(cfg, InitialRows(cfg))

\* A run has replaced the department's rows while another department and
\* another term have rows in the table.
C14_Witness ==
    /\ result.status = "success"
    /\ StoredEntries(cfg, db) # StoredEntries(cfg, InitialRows(cfg))
    /\ \E e \in BagToSet(db) : e.class_id \notin cfg.classes /\ e.term = Term
    /\ \E e \in BagToSet(db) : e.class_id \in cfg.classes /\ e.term = OtherTerm

\* C15: after a successful run the rows of the department for the term,
\* read back field by field, are the genes of the returned best chromosome,
\* each as many times as the chromosome has it, whatever rows the
\* department had for the term before.
C15_ReadBack ==
    result.status = "success" =>
        LET stored == StoredEntries(cfg, db)
            read(e) == Gene(e.class_id, e.subject_id, e.faculty_id,
                            e.time_slot_id, e.is_lab, e.assistant_faculty_id)
        IN  /\ \A e \in BagToSet(stored) :
                   CopiesIn(e, stored) = CopiesIn(read(e), best_ever.genes)
            /\ \A g \in GeneSet(best_ever.genes) :
                   \E e \in BagToSet(stored) : read(e) = g
            /\ result.total_entries = BagCardinality(best_ever.genes)

\* A successful run wrote a lab with an assistant over the rows of an
\* earlier run.
C15_Witness ==
    /\ result.status = "success"
    /\ \E g \in GeneSet(best_ever.genes) : g.is_lab /\ g.assistant_faculty_id # 0
    /\ StoredEntries(cfg, InitialRows(cfg)) # EmptyBag
    /\ StoredEntries(cfg, db) # StoredEntries(cfg, InitialRows(cfg))

-----------------------------------------------------------------------------
(* Faculty shared with a department generated earlier.                     *)

\* C16: the best chromosome a successful run persists places no faculty,
\* as main or as assistant, on a slot where the rows of a department
\* generated earlier for the term already book that faculty.
C16_NoCrossDeptClash ==
    result.status = "success" => CrossDeptClashes(cfg, best_ever.genes) = 0

-----------------------------------------------------------------------------
(* The constructor and the slots another department has booked.            *)

\* C17: a chromosome the constructor returns has no gene whose main or
\* assistant faculty is pre-booked in the gene's slot.
C17_ConstructorAvoidsBooked ==
    pc = "cons_returned" => CrossDeptClashes(cfg, Built) = 0

-----------------------------------------------------------------------------
(* The faculty of a lab triple during evolve.                              *)

\* C18: in every chromosome of the population and of the population being
\* bred, the lab genes of one class and one lab subject carry the same main
\* faculty and the same assistant faculty.
C18_TripleSharesFaculty ==
    \A ch \in {population[i] : i \in 1..Len(population)}
              \cup {new_population[i] : i \in 1..Len(new_population)} :
        \A g \in GeneSet(ch.genes), h \in GeneSet(ch.genes) :
            (g.is_lab /\ h.is_lab /\ g.class_id = h.class_id
                /\ g.subject_id = h.subject_id) =>
                /\ g.faculty_id = h.faculty_id
                /\ g.assistant_faculty_id = h.assistant_faculty_id

-----------------------------------------------------------------------------
(* SpecRepair: _repair_labs applied once to a chromosome of one class.     *)
(* The chromosome holds the three lab genes of subject 1 on any three      *)
(* slots, possibly with a different main faculty on the last of them,      *)
(* possibly the three lab genes of subject 2, and a theory gene on every   *)
(* other slot except at most MaxFree free ones.                            *)

\* Most slots of the class that hold no gene.
MaxFree == 2

RepairCfg(days) ==
    Scenario(days, 1,
             <<Subject(1, "LAB", 3, 1), Subject(2, "LAB", 3, 1), Subject(3, "THEORY", 4, 1)>>,
             [faculties |-> {1, 2},
              max_hours |-> [f \in {1, 2} |-> 20],
              prefs |-> [f \in {1, 2} |-> {}],
              history |-> [f \in {1, 2} |-> {}],
              pre_booked |-> [f \in {1, 2} |-> {}]])

\* The genes of a chromosome with lab 1 on S1, lab 2 on S2 and no gene on E.
RepairGenes(c, S1, S2, E, mixed) ==
    LET top == CHOOSE s \in S1 : \A o \in S1 : o <= s
    IN  SetToBag(
            {Gene(1, 1, IF mixed /\ s = top THEN 2 ELSE 1, s, TRUE, 2) : s \in S1}
            \cup {Gene(1, 2, 2, s, TRUE, 0) : s \in S2}
            \cup {Gene(1, 3, 1, s, FALSE, 0) : s \in SlotsOf(c) \ (S1 \cup S2 \cup E)})

Triples(S) == {T \in SUBSET S : Cardinality(T) = 3}

RepairInputs(c) ==
    UNION {UNION {{RepairGenes(c, S1, S2, E, mixed) :
                      E \in {X \in SUBSET (SlotsOf(c) \ (S1 \cup S2)) :
                                Cardinality(X) <= MaxFree},
                      mixed \in (IF c.days = 1 THEN BOOLEAN ELSE {FALSE})} :
                  S2 \in {{}} \cup (IF c.days = 1 THEN Triples(SlotsOf(c) \ S1) ELSE {})} :
           S1 \in Triples(SlotsOf(c))}

InitRepair ==
    /\ cfg \in {RepairCfg(days) : days \in 1..MaxDays}
    /\ pc = "repair_in"
    /\ ConsEntry(cfg)
    /\ population \in {<<Chromosome(B, 0)>> : B \in RepairInputs(cfg)}
    /\ new_population = <<>>
    /\ best_ever = NoChromosome
    /\ fitness_history = <<>>
    /\ generation = 0
    /\ best_evaluated = 0
    /\ gens_run = 0
    /\ db = EmptyBag
    /\ fsa = {}
    /\ result = [status |-> "none"]
    /\ requests = <<>>

\* child = self._repair_labs(child)
RepairStep ==
    /\ pc = "repair_in"
    /\ \E repaired \in _repair_labs(cfg, population[1]) :
          new_population' = <<repaired>>
    /\ pc' = "repair_out"
    /\ UNCHANGED <<cfg, consVars, population, best_ever, fitness_history, generation,
                   best_evaluated, gens_run, db, fsa, result, requests>>

SpecRepair == InitRepair /\ [][RepairStep]_vars

\* The lab subjects of class 1 whose three genes are not on three
\* consecutive periods of one day in bag B.
BrokenTriples(B) ==
    {cs \in LabPairs(B) :
        LabCount(B, cs[1], cs[2]) = 3 /\ ~_check_lab_continuity(LabSlots(B, cs[1], cs[2]))}

\* C19: after _repair_labs the slots of a triple that was not contiguous on
\* one day are either the slots it had, or three consecutive periods of one
\* day inside one half day (periods 1-3 or 5-7), never a block that holds
\* period 4 or spans lunch.
C19_RepairInHalfDay ==
    pc = "repair_out" =>
        \A cs \in BrokenTriples(population[1].genes) :
            LET before == LabSlots(population[1].genes, cs[1], cs[2])
                after == LabSlots(new_population[1].genes, cs[1], cs[2])
            IN  \/ after = before
                \/ ContiguousBlock(after) /\ HalfDayBlock(after)

\* C20: _repair_labs keeps the number of genes; the genes outside the
\* broken triples are the same before and after; and the genes of a broken
\* triple are the same before and after up to their slot.
C20_RepairFrame ==
    pc = "repair_out" =>
        LET before == population[1].genes
            after == new_population[1].genes
            broken == BrokenTriples(before)
            inBroken(g) == g.is_lab /\ <<g.class_id, g.subject_id>> \in broken
            noSlot(g) == [g EXCEPT !.time_slot_id = 0]
            others(B) == {g \in GeneSet(B) : ~inBroken(g)}
            count(B, v) == CountGenes(B, [g \in GeneSet(B) |-> inBroken(g) /\ noSlot(g) = v])
        IN  /\ BagCardinality(after) = BagCardinality(before)
            /\ others(after) = others(before)
            /\ \A g \in others(before) : Copies(after, g) = Copies(before, g)
            /\ \A g \in GeneSet(before) \cup GeneSet(after) :
                   count(after, noSlot(g)) = count(before, noSlot(g))

\* A repair moved a broken triple with an assistant in a chromosome that
\* also holds theory genes.
C20_Witness ==
    /\ pc = "repair_out"
    /\ new_population[1].genes # population[1].genes
    /\ \E g \in GeneSet(population[1].genes) : ~g.is_lab
    /\ \E g \in GeneSet(population[1].genes) :
          /\ g.is_lab /\ g.assistant_faculty_id # 0
          /\ <<g.class_id, g.subject_id>> \in BrokenTriples(population[1].genes)
          /\ g \notin GeneSet(new_population[1].genes)

-----------------------------------------------------------------------------
(* SpecOps: crossover applied once to two parents, and mutate applied once *)
(* to the first of them.  The parents are timetables of the same classes   *)
(* as the constructor builds them for one lab and one theory subject: the  *)
(* lab in the morning or the afternoon block, two theory subjects on the   *)
(* four other periods.                                                     *)

OpsCfg(nclasses) ==
    Scenario(1, nclasses,
             <<Subject(1, "LAB", 3, 1), Subject(2, "THEORY", 2, 1), Subject(3, "THEORY", 2, 1)>>,
             [faculties |-> {1, 2},
              max_hours |-> [f \in {1, 2} |-> 20],
              prefs |-> [f \in {1, 2} |-> {}],
              history |-> [f \in {1, 2} |-> {}],
              pre_booked |-> [f \in {1, 2} |-> {}]])

\* The genes of class k with the lab in block b (1: periods 1-3, 5: periods
\* 5-7), faculty f on theory subject 2 and faculty 2 on theory subject 3.
OpsClassGenes(c, k, b, f) ==
    LET lab == {SlotId(1, b), SlotId(1, b + 1), SlotId(1, b + 2)}
        rest == SlotsOf(c) \ lab
    IN  SetToBag({Gene(k, 1, 1, s, TRUE, 2) : s \in lab}
                 \cup {Gene(k, 2, f, s, FALSE, 0) : s \in FirstK(rest, 2)}
                 \cup {Gene(k, 3, 2, s, FALSE, 0) : s \in rest \ FirstK(rest, 2)})

\* The parents: with two classes every block and theory faculty, with more
\* classes every block.
OpsParents(c) ==
    {Chromosome(BagSum(c.classes,
                       [k \in c.classes |-> OpsClassGenes(c, k, v[k][1], v[k][2])]), 0) :
        v \in [c.classes -> {1, 5} \X (IF Cardinality(c.classes) = 2 THEN {1, 2} ELSE {1})]}

InitOps ==
    /\ cfg \in {OpsCfg(n) : n \in 2..MaxClasses}
    /\ pc = "ops_in"
    /\ ConsEntry(cfg)
    /\ population \in {<<p1, p2>> : p1 \in OpsParents(cfg), p2 \in OpsParents(cfg)}
    /\ new_population = <<>>
    /\ best_ever = NoChromosome
    /\ fitness_history = <<>>
    /\ generation = 0
    /\ best_evaluated = 0
    /\ gens_run = 0
    /\ db = EmptyBag
    /\ fsa = {}
    /\ result = [status |-> "none"]
    /\ requests = <<>>

\* child1, child2 = self.crossover(parent1, parent2)
CrossoverStep ==
    /\ pc = "ops_in"
    /\ \E xo \in crossover(population[1], population[2]) :
          new_population' = <<xo[1], xo[2]>>
    /\ pc' = "crossed"
    /\ UNCHANGED <<cfg, consVars, population, best_ever, fitness_history, generation,
                   best_evaluated, gens_run, db, fsa, result, requests>>

\* child1 = self.mutate(child1)
MutateStep ==
    /\ pc = "ops_in"
    /\ \E mutated \in mutate(cfg, population[1]) :
          new_population' = <<mutated>>
    /\ pc' = "mutated"
    /\ UNCHANGED <<cfg, consVars, population, best_ever, fitness_history, generation,
                   best_evaluated, gens_run, db, fsa, result, requests>>

NextOps == CrossoverStep \/ MutateStep

SpecOps == InitOps /\ [][NextOps]_vars

\* C21: crossover gives two children such that every class's genes in
\* child 1 are that class's genes in one parent and child 2 holds that
\* class's genes of the other parent; every lab triple of a child is a lab
\* triple of a parent; the two children together hold the genes of the two
\* parents.
C21_CrossoverByClass ==
    pc = "crossed" =>
        LET of(ch, k) == LET S == {g \in GeneSet(ch.genes) : g.class_id = k}
                         IN  [g \in S |-> Copies(ch.genes, g)]
            parent1 == population[1]
            parent2 == population[2]
            child1 == new_population[1]
            child2 == new_population[2]
        IN  /\ \A k \in cfg.classes :
                   \/ of(child1, k) = of(parent1, k) /\ of(child2, k) = of(parent2, k)
                   \/ of(child1, k) = of(parent2, k) /\ of(child2, k) = of(parent1, k)
            /\ \A ch \in {child1, child2} : \A cs \in LabPairs(ch.genes) :
                   \E p \in {parent1, parent2} :
                       {g \in GeneSet(ch.genes) : g.is_lab /\ g.class_id = cs[1]
                                                     /\ g.subject_id = cs[2]}
                       = {g \in GeneSet(p.genes) : g.is_lab /\ g.class_id = cs[1]
                                                      /\ g.subject_id = cs[2]}
            /\ child1.genes (+) child2.genes = parent1.genes (+) parent2.genes

\* Crossover has swapped a class between parents that differ in every class.
C21_Witness ==
    /\ pc = "crossed"
    /\ new_population[1].genes # population[1].genes
    /\ new_population[1].genes # population[2].genes
    /\ \A k \in cfg.classes :
          {g \in GeneSet(population[1].genes) : g.class_id = k}
              # {g \in GeneSet(population[2].genes) : g.class_id = k}

\* C22: mutate leaves the chromosome as it was, or changes faculty ids
\* only, or exchanges the slots of two non-lab genes of one class and
\* changes nothing else; in every case the lab genes keep their slots and
\* every class occupies the slots it occupied.
C22_MutateFrame ==
    pc = "mutated" =>
        LET before == population[1].genes
            after == new_population[1].genes
            noFaculty(B) == {[g EXCEPT !.faculty_id = 0] : g \in GeneSet(B)}
            labs(B) == {[g EXCEPT !.faculty_id = 0] : g \in {h \in GeneSet(B) : h.is_lab}}
            slots(B, k) == {g.time_slot_id : g \in {h \in GeneSet(B) : h.class_id = k}}
            swapped(g1, g2) ==
                ((before (-) SetToBag({g1})) (-) SetToBag({g2}))
                (+) SetToBag({[g1 EXCEPT !.time_slot_id = g2.time_slot_id]})
                (+) SetToBag({[g2 EXCEPT !.time_slot_id = g1.time_slot_id]})
        IN  /\ \/ after = before
               \/ /\ noFaculty(after) = noFaculty(before)
                  /\ BagCardinality(after) = BagCardinality(before)
               \/ \E g1 \in GeneSet(before), g2 \in GeneSet(before) :
                      /\ ~g1.is_lab /\ ~g2.is_lab /\ g1.class_id = g2.class_id
                      /\ after = swapped(g1, g2)
            /\ labs(after) = labs(before)
            /\ \A k \in cfg.classes : slots(after, k) = slots(before, k)

\* mutate has exchanged the slots of two genes of different theory
\* subjects of a class that also holds a lab.
C22_Witness ==
    /\ pc = "mutated"
    /\ new_population[1].genes # population[1].genes
    /\ \E g1 \in GeneSet(population[1].genes), g2 \in GeneSet(population[1].genes) :
          /\ ~g1.is_lab /\ ~g2.is_lab /\ g1.class_id = g2.class_id
          /\ g1.subject_id # g2.subject_id
          /\ LabCount(population[1].genes, g1.class_id, 1) = 3
          /\ new_population[1].genes =
                 ((population[1].genes (-) SetToBag({g1})) (-) SetToBag({g2}))
                 (+) SetToBag({[g1 EXCEPT !.time_slot_id = g2.time_slot_id]})
                 (+) SetToBag({[g2 EXCEPT !.time_slot_id = g1.time_slot_id]})

-----------------------------------------------------------------------------
(* Elitism and the fitness history.                                        *)

\* C23: with 1 <= elite_count <= population_size the population holds
\* population_size chromosomes in every generation, and the generation
\* being bred starts with the elite_count fittest chromosomes of the
\* previous one, genes and fitness unchanged, and never grows beyond
\* population_size.
C23_ElitismAndSize ==
    (cfg.params.elite_count >= 1
        /\ cfg.params.elite_count <= cfg.params.population_size) =>
        /\ pc \in {"gen_head", "breed", "evolved", "done"} =>
               Len(population) = cfg.params.population_size
        /\ pc = "breed" =>
               /\ Len(new_population) <= cfg.params.population_size
               /\ Len(new_population) >= cfg.params.elite_count
               /\ \A i \in 1..cfg.params.elite_count :
                      /\ new_population[i] = population[i]
                      /\ \A j \in i..Len(population) :
                             population[i].fitness >= population[j].fitness

\* A generation is complete: the elite and a child that differs from it,
\* bred from a population whose members differ in fitness.
C23_Witness ==
    /\ pc = "breed"
    /\ cfg.params.elite_count >= 1
    /\ Len(new_population) = cfg.params.population_size
    /\ new_population[Len(new_population)].genes # new_population[1].genes
    /\ population[1].fitness > population[Len(population)].fitness

\* C30: with elite_count >= 1 and generations >= 1 the fitness history
\* never decreases from one generation to the next, and the fitness of the
\* best-ever chromosome evolve returns is the last entry of the history.
C30_HistoryMonotone ==
    (cfg.params.elite_count >= 1 /\ cfg.params.generations >= 1) =>
        /\ \A i \in 1..(Len(fitness_history) - 1) :
               fitness_history[i] <= fitness_history[i + 1]
        /\ Returned =>
               /\ Len(fitness_history) >= 1
               /\ best_ever.fitness = Last(fitness_history)

\* evolve has returned after a generation that improved on the one before.
C30_Witness ==
    /\ Returned
    /\ cfg.params.elite_count >= 1
    /\ Len(fitness_history) >= 2
    /\ fitness_history[1] < Last(fitness_history)

-----------------------------------------------------------------------------
(* The lab room, the weekly hours and the fill pass of the constructor.    *)

\* C24: in a chromosome the constructor returns, two different classes
\* never hold the same lab subject in the same slot.
C24_LabRoomDisjoint ==
    pc = "cons_returned" =>
        \A k1 \in cfg.classes, k2 \in cfg.classes, sid \in LabIds(cfg) :
            k1 # k2 => LabSlots(Built, k1, sid) \cap LabSlots(Built, k2, sid) = {}

\* Three classes hold the same lab, each on its own three slots.
C24_Witness ==
    /\ pc = "cons_returned"
    /\ Cardinality(cfg.classes) = 3
    /\ \A k \in cfg.classes : LabCount(Built, k, 1) = 3

\* C25: in a chromosome the constructor returns, every THEORY and every
\* ELECTIVE subject of a class's curriculum has at least hours_per_week
\* genes of that class.
C25_WeeklyHours ==
    pc = "cons_returned" =>
        \A k \in cfg.classes :
            LET fillable == SubjectsOfType(cfg, k, {"THEORY", "ELECTIVE"})
            IN  \A i \in 1..Len(fillable) :
                    CountGenes(Built, [g \in GeneSet(Built) |->
                        g.class_id = k /\ g.subject_id = fillable[i]])
                    >= subject_info(cfg, fillable[i]).hours_per_week

\* C26: every iteration of the fill loop fills a slot or uses up one of a
\* bounded number of attempts, so the loop ends; it ends with no empty
\* slot left in the class; and a gene whose faculty is already scheduled in
\* the gene's slot is placed only when the faculty of every theory and
\* elective subject of the class is scheduled in that slot.
C26_FillPass ==
    [][pc = "cons_fill" =>
        LET fillable == SubjectsOfType(cfg, cur, {"THEORY", "ELECTIVE"})
            empty(u) == Cardinality(SlotsOf(cfg) \ u)
            placed == {g \in GeneSet(genes') : Copies(genes', g) > Copies(genes, g)}
        IN  /\ fill.attempts <= fill.max_attempts
            /\ pc' = "cons_class" => used_slots = SlotsOf(cfg)
            /\ pc' = "cons_fill" =>
                   \/ empty(used_slots') < empty(used_slots)
                   \/ fill'.attempts = fill.attempts + 1 /\ genes' = genes
            /\ \A g \in placed :
                   g.time_slot_id \in faculty_schedule[g.faculty_id] =>
                       \A i \in 1..Len(fillable) :
                           /\ fill'.sfmap[fillable[i]] # 0
                           /\ g.time_slot_id \in faculty_schedule[fill'.sfmap[fillable[i]]]
    ]_vars

\* The fill pass of a class with two fillable subjects has just placed a
\* gene after a full rotation of busy faculties.
C26_Witness ==
    /\ pc = "cons_fill"
    /\ Len(SubjectsOfType(cfg, cur, {"THEORY", "ELECTIVE"})) >= 2
    /\ fill.attempts > 0
    /\ fill.slot = 0

-----------------------------------------------------------------------------
(* The two lab checks of the fitness evaluator, on the lab triples of the  *)
(* chromosomes of SpecRepair.                                              *)

\* C27 as stated: a three-gene lab triple that passes the continuity check
\* of the evaluator gets no lab_timing penalty.
C27_TimingImpliedByContinuity ==
    \A cs \in LabPairs(population[1].genes) :
        (LabCount(population[1].genes, cs[1], cs[2]) = 3
            /\ cs \notin BrokenLabs(population[1].genes)) =>
            cs \notin MistimedLabs(population[1].genes)

\* C27: a three-gene lab triple that passes the continuity check of the
\* evaluator gets the lab_timing penalty exactly when it holds period 4;
\* without the penalty its periods are 1-3 or 5-7.
C27_TimingOfContinuousTriple ==
    \A cs \in LabPairs(population[1].genes) :
        (LabCount(population[1].genes, cs[1], cs[2]) = 3
            /\ cs \notin BrokenLabs(population[1].genes)) =>
            LET periods == {PeriodOf(s) : s \in LabSlots(population[1].genes, cs[1], cs[2])}
            IN  /\ cs \in MistimedLabs(population[1].genes) <=> 4 \in periods
                /\ cs \notin MistimedLabs(population[1].genes) =>
                       periods \in {{1, 2, 3}, {5, 6, 7}}

\* The chromosome holds a triple on periods 3, 4 and 5 of a day, which the
\* evaluator finds continuous and mistimed.
C27_Witness ==
    \E cs \in MistimedLabs(population[1].genes) :
        /\ cs \notin BrokenLabs(population[1].genes)
        /\ {PeriodOf(s) : s \in LabSlots(population[1].genes, cs[1], cs[2])} = {3, 4, 5}

-----------------------------------------------------------------------------
(* The timetable of a class and its lab triples during evolve.             *)

\* C28: no chromosome of a population, of the population being bred, or
\* returned as best has two genes of one class in one slot, and every class
\* with a theory or elective subject keeps one gene in every slot; the
\* chromosome a successful run has written has no two genes with the same
\* class and slot.
C28_NoClassDoubleBooking ==
    \A ch \in {population[i] : i \in 1..Len(population)}
              \cup {new_population[i] : i \in 1..Len(new_population)}
              \cup {best_ever} :
        \A k \in cfg.classes :
            /\ \A s \in SlotsOf(cfg) : GenesAt(ch.genes, k, s) <= 1
            /\ (HasFillable(cfg, k) /\ GeneSet(ch.genes) # {}) =>
                   \A s \in SlotsOf(cfg) : GenesAt(ch.genes, k, s) = 1

\* A child bred from two classes with a lab and a theory subject places
\* its genes as none of the chromosomes of the generation before.
C28_Witness ==
    /\ pc = "breed"
    /\ Len(new_population) = cfg.params.population_size
    /\ Cardinality(cfg.classes) = 2
    /\ LET place(ch) == {<<g.class_id, g.subject_id, g.time_slot_id>> :
                            g \in GeneSet(ch.genes)}
       IN  /\ \A i \in 1..Len(population) :
                  place(population[i]) # place(Last(new_population))
           /\ \E g \in GeneSet(Last(new_population).genes) : g.is_lab
           /\ \E g \in GeneSet(Last(new_population).genes) : ~g.is_lab

\* C29: in every chromosome of every generation each (class, lab subject)
\* triple is three consecutive periods of one day inside one half day, and
\* _repair_labs returns unchanged every chromosome that crossover and
\* mutate can hand to it.
C29_TriplesStayWhole ==
    /\ \A ch \in {population[i] : i \in 1..Len(population)}
                 \cup {new_population[i] : i \in 1..Len(new_population)}
                 \cup {best_ever} :
           \A cs \in LabPairs(ch.genes) :
               /\ ContiguousBlock(LabSlots(ch.genes, cs[1], cs[2]))
               /\ HalfDayBlock(LabSlots(ch.genes, cs[1], cs[2]))
    /\ pc = "breed" =>
           \A i \in 1..Len(population), j \in 1..Len(population) :
               \A xo \in crossover(population[i], population[j]) :
                   \A n \in 1..2 : \A m \in mutate(cfg, xo[n]) :
                       _repair_labs(cfg, m) = {m}

\* A mutation has changed the main faculty of one gene of a lab triple of a
\* child, and the triple is where it was.
C29_Witness ==
    /\ pc = "breed"
    /\ \E i \in 1..Len(new_population) :
          \E g \in GeneSet(new_population[i].genes), h \in GeneSet(new_population[i].genes) :
              /\ g.is_lab /\ h.is_lab
              /\ g.class_id = h.class_id /\ g.subject_id = h.subject_id
              /\ g.faculty_id # h.faculty_id

=============================================================================
